---- MODULE Spec2Model ----
(***************************************************************************)
(* The geography extraction pipeline of geographyparser: the domestic and  *)
(* the world pattern extractors, their gazetteer validators, and the       *)
(* corpus aggregator process_documents with its drop-then-insert           *)
(* persistence.  Text is a sequence of one-character strings, and every    *)
(* regular expression of the source is evaluated as Python's re evaluates  *)
(* it: each sub-pattern yields its possible end positions in backtracking  *)
(* priority order, and re.finditer takes the first complete match at the   *)
(* leftmost start and resumes at its end.                                  *)
(***************************************************************************)
EXTENDS Integers, Sequences, FiniteSets, TLC

\* ------------------------------------------------------------ characters
UpperChars == <<"A", "B", "C", "D", "E", "F", "G", "H", "I", "J", "K", "L", "M", "N", "O", "P", "Q", "R", "S", "T", "U", "V", "W", "X", "Y", "Z">>
LowerChars == <<"a", "b", "c", "d", "e", "f", "g", "h", "i", "j", "k", "l", "m", "n", "o", "p", "q", "r", "s", "t", "u", "v", "w", "x", "y", "z">>
Upper == {UpperChars[i] : i \in 1..26}
Lower == {LowerChars[i] : i \in 1..26}
\* One letter of the range À-ɏ, written as a token: it stands for
\* "u with diaeresis".  Python's lower() leaves it alone; \w holds it.
Accented == {"u:"}
Letters == Upper \cup Lower \cup Accented
WordChars == Letters \cup {"_", "0", "1"}
WhiteSpace == {" "}
LowerOfChar == [c \in Upper |-> LowerChars[CHOOSE i \in 1..26 : UpperChars[i] = c]]
UpperOfChar == [c \in Lower |-> UpperChars[CHOOSE i \in 1..26 : LowerChars[i] = c]]
ToLower(c) == IF c \in Upper THEN LowerOfChar[c] ELSE c
ToUpper(c) == IF c \in Lower THEN UpperOfChar[c] ELSE c

\* --------------------------------------------------- Python str methods
lower(s) == [i \in 1..Len(s) |-> ToLower(s[i])]
upper(s) == [i \in 1..Len(s) |-> ToUpper(s[i])]
\* str.title(): a letter is upper-cased after a non-letter, lower-cased after a letter.
title(s) == [i \in 1..Len(s) |-> IF i > 1 /\ s[i - 1] \in Letters THEN ToLower(s[i]) ELSE ToUpper(s[i])]
strip(s) ==
  IF \A i \in 1..Len(s) : s[i] \in WhiteSpace THEN <<>>
  ELSE LET a == CHOOSE i \in 1..Len(s) : s[i] \notin WhiteSpace /\ \A k \in 1..(i - 1) : s[k] \in WhiteSpace
           b == CHOOSE i \in 1..Len(s) : s[i] \notin WhiteSpace /\ \A k \in (i + 1)..Len(s) : s[k] \in WhiteSpace
       IN SubSeq(s, a, b)
\* needle in hay
Contains(hay, needle) ==
  \E i \in 1..(Len(hay) - Len(needle) + 1) : SubSeq(hay, i, i + Len(needle) - 1) = needle
\* s.split(','): the pieces between the commas
RECURSIVE split_comma(_)
split_comma(s) ==
  IF \A i \in 1..Len(s) : s[i] # ","
  THEN <<s>>
  ELSE LET c == CHOOSE i \in 1..Len(s) : s[i] = "," /\ \A k \in 1..(i - 1) : s[k] # ","
       IN <<SubSeq(s, 1, c - 1)>> \o split_comma(SubSeq(s, c + 1, Len(s)))
CommaSp == <<",", " ">>
\* f"{a}, {b}"
Join(a, b) == a \o CommaSp \o b

\* ------------------------------------------------ regular expression parts
\* Each part maps a text and a position to the sequence of positions where a
\* match of the part may end, most preferred first.
FlatMap(F(_), ps) ==
  LET RECURSIVE go(_)
      go(k) == IF k > Len(ps) THEN <<>> ELSE F(ps[k]) \o go(k + 1)
  IN go(1)
\* where the run of characters of S that starts at i ends
RunEnd(t, i, S) ==
  IF \A k \in i..Len(t) : t[k] \in S THEN Len(t) + 1
  ELSE CHOOSE e \in i..Len(t) : t[e] \notin S /\ \A k \in i..(e - 1) : t[k] \in S
One(t, i, S) == IF i <= Len(t) /\ t[i] \in S THEN <<i + 1>> ELSE <<>>
Opt(t, i, S) == One(t, i, S) \o <<i>>
Plus(t, i, S) == LET e == RunEnd(t, i, S) IN [k \in 1..(e - i) |-> e - k + 1]
Star(t, i, S) == Plus(t, i, S) \o <<i>>
Lit(t, i, w) ==
  IF i + Len(w) - 1 <= Len(t) /\ SubSeq(t, i, i + Len(w) - 1) = w THEN <<i + Len(w)>> ELSE <<>>
IsWordAt(t, i) == i >= 1 /\ i <= Len(t) /\ t[i] \in WordChars
\* \b before position i
Boundary(t, i) == IsWordAt(t, i - 1) # IsWordAt(t, i)
\* re.finditer: leftmost start, first match in priority order, resume at its end
FindIter(MatchAt(_, _), t) ==
  LET starts == SelectSeq([p \in 1..Len(t) |-> p], LAMBDA p : MatchAt(t, p) # <<>>)
      RECURSIVE scan(_, _)
      scan(k, pos) ==
        IF k > Len(starts) THEN <<>>
        ELSE IF starts[k] < pos THEN scan(k + 1, pos)
        ELSE LET m == MatchAt(t, starts[k])[1] IN <<m>> \o scan(k + 1, m.e)
  IN scan(1, 1)

\* ------------------------------------------------------------ dictionaries
\* A Python dict: its (key, value) pairs in insertion order, keys distinct.
Has(d, k) == \E i \in 1..Len(d) : d[i][1] = k
Get(d, k) == d[CHOOSE i \in 1..Len(d) : d[i][1] = k][2]
GetOr(d, k, dflt) == IF Has(d, k) THEN Get(d, k) ELSE dflt
\* d[k] = v
Put(d, k, v) ==
  IF Has(d, k) THEN [i \in 1..Len(d) |-> IF d[i][1] = k THEN <<k, v>> ELSE d[i]]
  ELSE Append(d, <<k, v>>)
\* if k not in d: d[k] = v
PutNew(d, k, v) == IF Has(d, k) THEN d ELSE Append(d, <<k, v>>)
Invert(d) == [i \in 1..Len(d) |-> <<d[i][2], d[i][1]>>]

\* ----------------------------------------------------- domestic state tables
IL == <<"I", "L">>
MA == <<"M", "A">>
NY == <<"N", "Y">>
VA == <<"V", "A">>
WV == <<"W", "V">>
DC == <<"D", "C">>
GU == <<"G", "U">>
Illinois == <<"I", "l", "l", "i", "n", "o", "i", "s">>
Massachusetts == <<"M", "a", "s", "s", "a", "c", "h", "u", "s", "e", "t", "t", "s">>
NewYork == <<"N", "e", "w", " ", "Y", "o", "r", "k">>
Virginia == <<"V", "i", "r", "g", "i", "n", "i", "a">>
WestVirginia == <<"W", "e", "s", "t", " ", "V", "i", "r", "g", "i", "n", "i", "a">>
DistrictOfColumbia == <<"D", "i", "s", "t", "r", "i", "c", "t", " ", "o", "f", " ", "C", "o", "l", "u", "m", "b", "i", "a">>
Ill_ == <<"I", "l", "l", ".">>
Mass_ == <<"M", "a", "s", "s", ".">>
N_Y_ == <<"N", ".", "Y", ".">>
Va_ == <<"V", "a", ".">>
W_Va_ == <<"W", ".", "V", "a", ".">>
D_C_ == <<"D", ".", "C", ".">>
Guam == <<"G", "u", "a", "m">>
County == <<"C", "o", "u", "n", "t", "y">>
county_lc == <<"c", "o", "u", "n", "t", "y">>

\* setup_census_data.STATE_ABBREV, the states the model's gazetteer uses, in
\* the source's order; states.json holds it and its inverse.
STATE_ABBREV ==
  << <<IL, Illinois>>, <<MA, Massachusetts>>, <<NY, NewYork>>, <<VA, Virginia>>,
     <<WV, WestVirginia>>, <<DC, DistrictOfColumbia>>, <<GU, Guam>> >>
STATE_TO_ABBREV == Invert(STATE_ABBREV)
abbrev_to_full == STATE_ABBREV
full_to_abbrev == STATE_TO_ABBREV
\* GeographyExtractor.OLD_STATE_ABBREVS, for the same states
OLD_STATE_ABBREVS ==
  << <<Ill_, IL>>, <<Mass_, MA>>, <<N_Y_, NY>>, <<Va_, VA>>, <<W_Va_, WV>>, <<D_C_, DC>> >>

\* ------------------------------------------- domestic extractor (regex parts)
DotSpace == WhiteSpace \cup {"."}
\* (?:[\.\s]+[A-Z]?[a-z]+)*
RECURSIVE CityTail(_, _)
CityTail(t, p) ==
  FlatMap(LAMBDA q :
    FlatMap(LAMBDA r :
      FlatMap(LAMBDA s : CityTail(t, s), Plus(t, r, Lower)),
      Opt(t, q, Upper)),
    Plus(t, p, DotSpace)) \o <<p>>
\* [A-Z][a-z]+(?:[\.\s]+[A-Z]?[a-z]+)*
CityGroup(t, i) ==
  FlatMap(LAMBDA p : FlatMap(LAMBDA s : CityTail(t, s), Plus(t, p, Lower)), One(t, i, Upper))
\* the separator between capitalized words: \s+ (many) or one of [\s-]
Sep(t, p, S, many) == IF many THEN Plus(t, p, S) ELSE One(t, p, S)
\* (?:SEP[A-Z][low]+)*
RECURSIVE CapWordsTail(_, _, _, _, _)
CapWordsTail(t, p, low, S, many) ==
  FlatMap(LAMBDA q :
    FlatMap(LAMBDA r :
      FlatMap(LAMBDA s : CapWordsTail(t, s, low, S, many), Plus(t, r, low)),
      One(t, q, Upper)),
    Sep(t, p, S, many)) \o <<p>>
\* [A-Z][low]+(?:SEP[A-Z][low]+)*
CapWords(t, i, low, S, many) ==
  FlatMap(LAMBDA p : FlatMap(LAMBDA s : CapWordsTail(t, s, low, S, many), Plus(t, p, low)),
          One(t, i, Upper))
\* [A-Z]{2}
TwoUpper(t, i) == FlatMap(LAMBDA p : One(t, p, Upper), One(t, i, Upper))
\* ([A-Z][a-z]+(?:\s+[A-Z][a-z]+)*|[A-Z]{2})
StateGroup(t, i) == CapWords(t, i, Lower, WhiteSpace, TRUE) \o TwoUpper(t, i)
\* A match: where it starts (s), where it ends (e), its groups.
Match(t, i, e, a, b, c, d) ==
  [s |-> i, e |-> e, g1 |-> SubSeq(t, a, b - 1), g2 |-> SubSeq(t, c, d - 1)]
\* \b(CITY),\s*(STATE)\b
pattern1At(t, i) ==
  IF ~Boundary(t, i) THEN <<>>
  ELSE FlatMap(LAMBDA p1 :
         FlatMap(LAMBDA p2 :
           FlatMap(LAMBDA p3 :
             FlatMap(LAMBDA p4 :
               IF Boundary(t, p4) THEN <<Match(t, i, p4, i, p1, p3, p4)>> ELSE <<>>,
               StateGroup(t, p3)),
             Star(t, p2, WhiteSpace)),
           Lit(t, p1, <<",">>)),
         CityGroup(t, i))
\* \b(CITY),\s*([A-Z][a-z]+\.)
pattern2At(t, i) ==
  IF ~Boundary(t, i) THEN <<>>
  ELSE FlatMap(LAMBDA p1 :
         FlatMap(LAMBDA p2 :
           FlatMap(LAMBDA p3 :
             FlatMap(LAMBDA p4 :
               FlatMap(LAMBDA p5 :
                 FlatMap(LAMBDA p6 : <<Match(t, i, p6, i, p1, p3, p6)>>, Lit(t, p5, <<".">>)),
                 Plus(t, p4, Lower)),
               One(t, p3, Upper)),
             Star(t, p2, WhiteSpace)),
           Lit(t, p1, <<",">>)),
         CityGroup(t, i))
\* [A-Z]\.[A-Z]\.
DottedPair(t, i) ==
  FlatMap(LAMBDA a :
    FlatMap(LAMBDA b :
      FlatMap(LAMBDA c : Lit(t, c, <<".">>), One(t, b, Upper)),
      Lit(t, a, <<".">>)),
    One(t, i, Upper))
\* \b(CITY),\s*([A-Z]\.[A-Z]\.)
pattern3At(t, i) ==
  IF ~Boundary(t, i) THEN <<>>
  ELSE FlatMap(LAMBDA p1 :
         FlatMap(LAMBDA p2 :
           FlatMap(LAMBDA p3 :
             FlatMap(LAMBDA p4 : <<Match(t, i, p4, i, p1, p3, p4)>>, DottedPair(t, p3)),
             Star(t, p2, WhiteSpace)),
           Lit(t, p1, <<",">>)),
         CityGroup(t, i))
\* \b([A-Z][a-z]+(?:\s+[A-Z][a-z]+)*)\s+County\b
county_patternAt(t, i) ==
  IF ~Boundary(t, i) THEN <<>>
  ELSE FlatMap(LAMBDA p1 :
         FlatMap(LAMBDA p2 :
           FlatMap(LAMBDA p3 :
             IF Boundary(t, p3) THEN <<Match(t, i, p3, i, p1, p3, p3)>> ELSE <<>>,
             Lit(t, p2, County)),
           Plus(t, p1, WhiteSpace)),
         CapWords(t, i, Lower, WhiteSpace, TRUE))
\* \b([A-Z][a-z]+(?:\s+[A-Z][a-z]+)*)\s+County,\s*(STATE)\b
county_state_patternAt(t, i) ==
  IF ~Boundary(t, i) THEN <<>>
  ELSE FlatMap(LAMBDA p1 :
         FlatMap(LAMBDA p2 :
           FlatMap(LAMBDA p3 :
             FlatMap(LAMBDA p4 :
               FlatMap(LAMBDA p5 :
                 FlatMap(LAMBDA p6 :
                   IF Boundary(t, p6) THEN <<Match(t, i, p6, i, p1, p5, p6)>> ELSE <<>>,
                   StateGroup(t, p5)),
                 Star(t, p4, WhiteSpace)),
               Lit(t, p3, <<",">>)),
             Lit(t, p2, County)),
           Plus(t, p1, WhiteSpace)),
         CapWords(t, i, Lower, WhiteSpace, TRUE))

\* GeographyExtractor.extract_locations_regex: the candidates of a text, in
\* the order the six scans append them.
regex1_out(t, common_names) ==
  FlatMap(LAMBDA m :
    IF lower(m.g1) \in common_names THEN <<>>
    ELSE IF Has(abbrev_to_full, upper(m.g2)) \/ Has(full_to_abbrev, title(m.g2))
         THEN <<Join(m.g1, m.g2)>> ELSE <<>>,
    FindIter(pattern1At, t))
OldAbbrevOut(ms, common_names) ==
  FlatMap(LAMBDA m :
    IF lower(m.g1) \in common_names THEN <<>>
    ELSE IF Has(OLD_STATE_ABBREVS, m.g2)
         THEN LET state_code == Get(OLD_STATE_ABBREVS, m.g2)
              IN <<Join(m.g1, GetOr(abbrev_to_full, state_code, state_code))>>
         ELSE <<>>,
    ms)
regex4_out(t) == FlatMap(LAMBDA m : <<m.g1 \o <<" ">> \o County>>, FindIter(county_patternAt, t))
regex5_out(t) ==
  FlatMap(LAMBDA m :
    IF Has(abbrev_to_full, upper(m.g2)) \/ Has(full_to_abbrev, title(m.g2))
    THEN <<Join(m.g1 \o <<" ">> \o County,
                IF Has(abbrev_to_full, upper(m.g2)) THEN Get(abbrev_to_full, upper(m.g2)) ELSE m.g2)>>
    ELSE <<>>,
    FindIter(county_state_patternAt, t))
standalone_states(t) ==
  FlatMap(LAMBDA kv : IF Contains(t, kv[1]) THEN <<kv[1]>> ELSE <<>>, full_to_abbrev)
extract_locations_regex(t, common_names) ==
  IF t = <<>> THEN <<>>
  ELSE regex1_out(t, common_names)
       \o OldAbbrevOut(FindIter(pattern2At, t), common_names)
       \o OldAbbrevOut(FindIter(pattern3At, t), common_names)
       \o regex4_out(t) \o regex5_out(t) \o standalone_states(t)

\* --------------------------------------------------- domestic gazetteer
Boston == <<"B", "o", "s", "t", "o", "n">>
Springfield == <<"S", "p", "r", "i", "n", "g", "f", "i", "e", "l", "d">>
Charleston == <<"C", "h", "a", "r", "l", "e", "s", "t", "o", "n">>
Washington == <<"W", "a", "s", "h", "i", "n", "g", "t", "o", "n">>
Stephen == <<"S", "t", "e", "p", "h", "e", "n">>
Suffolk == <<"S", "u", "f", "f", "o", "l", "k">>
Sangamon == <<"S", "a", "n", "g", "a", "m", "o", "n">>
Hampden == <<"H", "a", "m", "p", "d", "e", "n">>
Kanawha == <<"K", "a", "n", "a", "w", "h", "a">>
Cass == <<"C", "a", "s", "s">>
Salem == <<"S", "a", "l", "e", "m">>
CookCounty == <<"C", "o", "o", "k", " ", "C", "o", "u", "n", "t", "y">>

\* setup_census_data.parse_cities_csv: each row is stored under
\* "city, state name" and "city, state code", the first row of a key winning.
place_data(row) ==
  [name |-> row.CITY, state |-> row.STATE_NAME, state_abbrev |-> row.STATE_CODE,
   county |-> row.COUNTY, lat |-> row.LATITUDE, lng |-> row.LONGITUDE, type |-> "place"]
RECURSIVE parse_cities_csv(_)
parse_cities_csv(rows) ==
  IF rows = <<>> THEN <<>>
  ELSE LET row == rows[Len(rows)]
           places == parse_cities_csv(SubSeq(rows, 1, Len(rows) - 1))
       IN PutNew(PutNew(places, lower(Join(row.CITY, row.STATE_NAME)), place_data(row)),
                 lower(Join(row.CITY, row.STATE_CODE)), place_data(row))
\* setup_census_data.main: the state-level entries, under the state's name and code
state_data(kv, centroid) ==
  [name |-> kv[1], state |-> kv[1], state_abbrev |-> kv[2],
   lat |-> centroid[1], lng |-> centroid[2], type |-> "state"]
RECURSIVE add_states(_, _, _)
add_states(places, centroids, n) ==
  IF n = 0 THEN places
  ELSE LET kv == <<centroids[n][1], GetOr(STATE_TO_ABBREV, centroids[n][1], <<>>)>>
           sd == state_data(kv, centroids[n][2])
           before == add_states(places, centroids, n - 1)
           named == Put(before, lower(kv[1]), sd)
       IN IF kv[2] # <<>> THEN Put(named, lower(kv[2]), sd) ELSE named
\* setup_census_data.build_city_to_states_index
state_info(data) ==
  [state |-> data.state, state_abbrev |-> data.state_abbrev, lat |-> data.lat, lng |-> data.lng]
\* The index keeps, per lower-cased name in order of first appearance in
\* places, the distinct state_info records in order of first appearance.
build_city_to_states_index(places) ==
  LET name_at(i) == lower(places[i][2].name)
      first_names == SelectSeq([i \in 1..Len(places) |-> i],
                       LAMBDA i : \A j \in 1..(i - 1) : name_at(j) # name_at(i))
      entries(nm) ==
        LET first_infos == SelectSeq([i \in 1..Len(places) |-> i],
                             LAMBDA i : /\ name_at(i) = nm
                                        /\ \A j \in 1..(i - 1) :
                                             ~(name_at(j) = nm /\ state_info(places[j][2]) = state_info(places[i][2])))
        IN [k \in 1..Len(first_infos) |-> state_info(places[first_infos[k]][2])]
  IN [k \in 1..Len(first_names) |-> <<name_at(first_names[k]), entries(name_at(first_names[k]))>>]
\* STATE_CENTROIDS, with whole-number coordinates (the territories of
\* STATE_ABBREV have no centroid)
STATE_CENTROIDS ==
  << <<Illinois, <<40, -88>> >>, <<Massachusetts, <<42, -71>> >>, <<NewYork, <<42, -74>> >>,
     <<Virginia, <<37, -78>> >>, <<WestVirginia, <<38, -80>> >>,
     <<DistrictOfColumbia, <<38, -77>> >> >>
\* What GeographyExtractor._load_census_data reads: us_locations.json,
\* city_states_index.json and the optional us_counties.json.
Gazetteer(rows, counties) ==
  LET places == add_states(parse_cities_csv(rows), STATE_CENTROIDS, Len(STATE_CENTROIDS))
  IN [locations |-> places,
      city_states |-> build_city_to_states_index(places),
      counties |-> counties]
Row(city, code, cnty, lat, lng) ==
  [CITY |-> city, STATE_CODE |-> code, STATE_NAME |-> Get(STATE_ABBREV, code),
   COUNTY |-> cnty, LATITUDE |-> lat, LONGITUDE |-> lng]

\* ---------------------------------------------------- domestic validator
None == [none |-> TRUE]
\* GeographyExtractor.validate_and_geocode
county_rule(gz, loc_lower) ==
  IF Contains(loc_lower, county_lc) /\ Contains(loc_lower, <<",">>)
  THEN LET raw == split_comma(loc_lower)
           parts == [i \in 1..Len(raw) |-> strip(raw[i])]
       IN IF Len(parts) = 2
          THEN LET county_part == parts[1]
                   state == parts[2]
                   key1 == IF Has(abbrev_to_full, upper(state))
                           THEN lower(Join(county_part, Get(abbrev_to_full, upper(state))))
                           ELSE <<>>
                   key2 == lower(Join(county_part, state))
               IN IF key1 # <<>> /\ Has(gz.counties, key1) THEN Get(gz.counties, key1)
                  ELSE IF Has(gz.counties, key2) THEN Get(gz.counties, key2)
                  ELSE None
          ELSE None
  ELSE None
city_state_rule(gz, loc_lower) ==
  LET raw == split_comma(loc_lower)
      parts == [i \in 1..Len(raw) |-> strip(raw[i])]
  IN IF Len(parts) = 2
     THEN LET city == parts[1]
              state == parts[2]
              key1 == IF Has(abbrev_to_full, upper(state))
                      THEN lower(Join(city, Get(abbrev_to_full, upper(state)))) ELSE <<>>
              key2 == IF Has(full_to_abbrev, title(state))
                      THEN lower(Join(city, Get(full_to_abbrev, title(state)))) ELSE <<>>
          IN IF key1 # <<>> /\ Has(gz.locations, key1) THEN Get(gz.locations, key1)
             ELSE IF key2 # <<>> /\ Has(gz.locations, key2) THEN Get(gz.locations, key2)
             ELSE None
     ELSE None
unflagged_city_rule(gz, location_str, city_lower) ==
  IF Has(gz.city_states, city_lower)
  THEN LET s == Get(gz.city_states, city_lower)[1]
       IN [name |-> location_str, state |-> s.state, state_abbrev |-> s.state_abbrev,
           lat |-> s.lat, lng |-> s.lng, type |-> "place", ambiguous |-> FALSE]
  ELSE None
bare_city_rule(gz, location_str, city_lower) ==
  IF Has(gz.city_states, city_lower)
  THEN LET states_list == Get(gz.city_states, city_lower)
           s == states_list[1]
       IN IF Len(states_list) = 1
          THEN [name |-> location_str, state |-> s.state, state_abbrev |-> s.state_abbrev,
                lat |-> s.lat, lng |-> s.lng, type |-> "place", ambiguous |-> FALSE]
          ELSE IF Len(states_list) > 0
          THEN [name |-> location_str, state |-> s.state, state_abbrev |-> s.state_abbrev,
                lat |-> s.lat, lng |-> s.lng, type |-> "place", ambiguous |-> TRUE,
                possible_states |-> [i \in 1..Len(states_list) |-> states_list[i].state]]
          ELSE None
  ELSE None
state_rule(loc_lower) ==
  IF Has(full_to_abbrev, title(loc_lower)) THEN [name |-> title(loc_lower), type |-> "state"]
  ELSE IF Has(abbrev_to_full, upper(loc_lower))
  THEN [name |-> Get(abbrev_to_full, upper(loc_lower)), type |-> "state"]
  ELSE None
validate_and_geocode(gz, location_str) ==
  LET loc_lower == strip(lower(location_str))
      by_county == county_rule(gz, loc_lower)
      by_comma == IF Contains(loc_lower, <<",">>) THEN city_state_rule(gz, loc_lower)
                  ELSE bare_city_rule(gz, location_str, loc_lower)
  IN IF Has(gz.locations, loc_lower) THEN Get(gz.locations, loc_lower)
     ELSE IF Has(gz.counties, loc_lower) THEN Get(gz.counties, loc_lower)
     ELSE IF by_county # None THEN by_county
     ELSE IF by_comma # None THEN by_comma
     ELSE state_rule(loc_lower)

\* process_documents (domestic): the canonical key of a validated record that
\* passes `validated and validated.get('lat')`; NoKey otherwise.
has_lat(v) == v # None /\ "lat" \in DOMAIN v /\ v.lat # 0
NoKey == <<>>
canonical_key(v) ==
  IF ~has_lat(v) THEN NoKey
  ELSE IF v.type = "state" THEN lower(v.name) ELSE lower(Join(v.name, v.state))

\* ------------------------------------------------------ world country tables
FR == <<"F", "R">>
GB == <<"G", "B">>
CA == <<"C", "A">>
UK == <<"U", "K">>
FRA == <<"F", "R", "A">>
GBR == <<"G", "B", "R">>
ISR == <<"I", "S", "R">>
CAN == <<"C", "A", "N">>
France == <<"F", "r", "a", "n", "c", "e">>
UnitedKingdom == <<"U", "n", "i", "t", "e", "d", " ", "K", "i", "n", "g", "d", "o", "m">>
Israel == <<"I", "s", "r", "a", "e", "l">>
Canada == <<"C", "a", "n", "a", "d", "a">>
britain == <<"b", "r", "i", "t", "a", "i", "n">>
england == <<"e", "n", "g", "l", "a", "n", "d">>
uk == <<"u", "k">>

\* countries.json as setup_world_data.parse_country_info writes it, for four
\* countries: code_to_name holds the ISO-2 and ISO-3 codes, name_to_code the
\* lower-cased names and then the aliases whose code is known.
CountryRows == << <<FR, FRA, France>>, <<GB, GBR, UnitedKingdom>>, <<IL, ISR, Israel>>, <<CA, CAN, Canada>> >>
aliases == << <<uk, GB>>, <<britain, GB>>, <<england, GB>> >>
RECURSIVE parse_code_to_name(_)
parse_code_to_name(n) ==
  IF n = 0 THEN <<>>
  ELSE Put(Put(parse_code_to_name(n - 1), CountryRows[n][1], CountryRows[n][3]),
           CountryRows[n][2], CountryRows[n][3])
code_to_name == parse_code_to_name(Len(CountryRows))
RECURSIVE parse_name_to_code(_)
parse_name_to_code(n) ==
  IF n = 0 THEN <<>>
  ELSE Put(parse_name_to_code(n - 1), lower(CountryRows[n][3]), CountryRows[n][1])
RECURSIVE add_aliases(_, _)
add_aliases(d, n) ==
  IF n = 0 THEN d
  ELSE LET before == add_aliases(d, n - 1)
       IN IF Has(code_to_name, aliases[n][2]) THEN Put(before, aliases[n][1], aliases[n][2])
          ELSE before
name_to_code == add_aliases(parse_name_to_code(Len(CountryRows)), Len(aliases))

\* ------------------------------------------------------- world gazetteer
Lyon == <<"L", "y", "o", "n">>
London == <<"L", "o", "n", "d", "o", "n">>
Windsor == <<"W", "i", "n", "d", "s", "o", "r">>
Nazareth == <<"N", "a", "z", "a", "r", "e", "t", "h">>
Paris == <<"P", "a", "r", "i", "s">>
\* setup_world_data.parse_cities: each row is stored under four keys, the
\* first row of a key winning; rows of the United States or of an unknown
\* country are skipped.
world_place_data(row) ==
  [name |-> row.name, ascii_name |-> row.asciiname, country |-> Get(code_to_name, row.country_code),
   country_code |-> row.country_code, lat |-> row.latitude, lng |-> row.longitude,
   population |-> row.population, type |-> "city"]
RECURSIVE parse_cities(_)
parse_cities(rows) ==
  IF rows = <<>> THEN <<>>
  ELSE LET row == rows[Len(rows)]
           places == parse_cities(SubSeq(rows, 1, Len(rows) - 1))
       IN IF row.country_code = <<"U", "S">> \/ ~Has(code_to_name, row.country_code) THEN places
          ELSE LET pd == world_place_data(row)
                   cn == pd.country
               IN PutNew(PutNew(PutNew(PutNew(places,
                    lower(Join(row.name, cn)), pd),
                    lower(Join(row.asciiname, cn)), pd),
                    lower(Join(row.name, row.country_code)), pd),
                    lower(Join(row.asciiname, row.country_code)), pd)
WRow(name, ascii, code, lat, lng, pop) ==
  [name |-> name, asciiname |-> ascii, country_code |-> code, latitude |-> lat,
   longitude |-> lng, population |-> pop]

\* ------------------------------------------------- gazetteer source files
\* A cell of a source file is text: Num(n) is text that float() and int()
\* read as n, Txt(s) any other text.  A line is the sequence of its cells.
Num(n) == [n |-> n]
Txt(s) == [s |-> s]
is_num(cell) == "n" \in DOMAIN cell
cell_text(cell) == IF is_num(cell) THEN <<"0">> ELSE cell.s
Raised(error) == [raised |-> TRUE, error |-> error]
Parsed(places) == [raised |-> FALSE, places |-> places]
NoError == "none"
\* the first exception of a sequence of statements
first_error(errors) ==
  IF \A i \in 1..Len(errors) : errors[i] = NoError THEN NoError
  ELSE errors[CHOOSE i \in 1..Len(errors) : errors[i] # NoError /\ \A j \in 1..(i - 1) : errors[j] = NoError]
\* csv.DictReader: a line without cells is passed over; the cells of a line
\* are named by the header in order, and a column the line does not reach
\* is None
index_of(seq, x) == CHOOSE i \in 1..Len(seq) : seq[i] = x
DictReader(header, lines) ==
  LET rows == SelectSeq(lines, LAMBDA line : line # <<>>)
  IN [k \in 1..Len(rows) |->
        [c \in {header[i] : i \in 1..Len(header)} |->
           IF index_of(header, c) <= Len(rows[k]) THEN rows[k][index_of(header, c)] ELSE None]]
\* row[c].strip()
strip_error(row, c) ==
  IF c \notin DOMAIN row THEN "KeyError" ELSE IF row[c] = None THEN "AttributeError" ELSE NoError
\* row.get(c, '').strip()
get_strip_error(row, c) == IF c \in DOMAIN row /\ row[c] = None THEN "AttributeError" ELSE NoError
\* float(row[c])
float_error(row, c) ==
  IF c \notin DOMAIN row THEN "KeyError"
  ELSE IF row[c] = None THEN "TypeError"
  ELSE IF ~is_num(row[c]) THEN "ValueError" ELSE NoError
\* the try block of parse_cities_csv for one row
census_row_error(row) ==
  first_error(<<strip_error(row, "STATE_CODE"), strip_error(row, "STATE_NAME"), strip_error(row, "CITY"),
                get_strip_error(row, "COUNTY"), float_error(row, "LATITUDE"), float_error(row, "LONGITUDE")>>)
census_row(row) ==
  [CITY |-> strip(cell_text(row.CITY)), STATE_CODE |-> strip(cell_text(row.STATE_CODE)),
   STATE_NAME |-> strip(cell_text(row.STATE_NAME)),
   COUNTY |-> IF "COUNTY" \in DOMAIN row THEN strip(cell_text(row.COUNTY)) ELSE <<>>,
   LATITUDE |-> row.LATITUDE.n, LONGITUDE |-> row.LONGITUDE.n]
\* except (ValueError, KeyError)
census_caught(error) == error \in {"ValueError", "KeyError"}
\* setup_census_data.parse_cities_csv on a file: its header and its lines
RECURSIVE census_rows(_, _, _)
census_rows(rows, k, kept) ==
  IF k > Len(rows) THEN Parsed(parse_cities_csv(kept))
  ELSE LET error == census_row_error(rows[k])
       IN IF error = NoError THEN census_rows(rows, k + 1, Append(kept, census_row(rows[k])))
          ELSE IF census_caught(error) THEN census_rows(rows, k + 1, kept)
          ELSE Raised(error)
parse_cities_csv_file(header, lines) == census_rows(DictReader(header, lines), 1, <<>>)
\* the fewest parts of a GeoNames line that is read
MIN_PARTS == 15
\* float(parts[i]) and int(parts[i] or 0)
float_part_error(parts, i) == IF is_num(parts[i]) THEN NoError ELSE "ValueError"
int_part_error(parts, i) == IF is_num(parts[i]) \/ parts[i].s = <<>> THEN NoError ELSE "ValueError"
\* the try block of parse_cities for one line: the parts are numbered from
\* 1 here (name 2, asciiname 3, latitude 5, longitude 6, country_code 9,
\* population 15)
geoname_error(parts) ==
  IF cell_text(parts[9]) = <<"U", "S">> \/ ~Has(code_to_name, cell_text(parts[9])) THEN NoError
  ELSE first_error(<<float_part_error(parts, 5), float_part_error(parts, 6), int_part_error(parts, 15)>>)
geoname_row(parts) ==
  WRow(strip(cell_text(parts[2])), strip(cell_text(parts[3])), strip(cell_text(parts[9])),
       IF is_num(parts[5]) THEN parts[5].n ELSE 0, IF is_num(parts[6]) THEN parts[6].n ELSE 0,
       IF is_num(parts[15]) THEN parts[15].n ELSE 0)
\* except (ValueError, IndexError)
geoname_caught(error) == error \in {"ValueError", "IndexError"}
\* setup_world_data.parse_cities on the lines of a file
RECURSIVE geoname_lines(_, _, _)
geoname_lines(lines, k, kept) ==
  IF k > Len(lines) THEN Parsed(parse_cities(kept))
  ELSE IF Len(lines[k]) < MIN_PARTS THEN geoname_lines(lines, k + 1, kept)
  ELSE LET error == geoname_error(lines[k])
       IN IF error = NoError THEN geoname_lines(lines, k + 1, Append(kept, geoname_row(lines[k])))
          ELSE IF geoname_caught(error) THEN geoname_lines(lines, k + 1, kept)
          ELSE Raised(error)
parse_cities_file(lines) == geoname_lines(lines, 1, <<>>)

\* --------------------------------------------------------- world extractor
\* [a-zÀ-ɏ]
LowerW == Lower \cup Accented
SpaceHyphen == WhiteSpace \cup {"-"}
\* WorldGeographyExtractor._build_country_pattern: the names longer than two
\* characters, longest first (sorted is stable), and the two-letter codes.
RECURSIVE insert_by_len(_, _)
insert_by_len(sorted, name) ==
  IF sorted = <<>> THEN <<name>>
  ELSE IF Len(name) > Len(sorted[1]) THEN <<name>> \o sorted
  ELSE <<sorted[1]>> \o insert_by_len(Tail(sorted), name)
RECURSIVE sort_longest_first(_, _)
sort_longest_first(d, n) ==
  IF n = 0 THEN <<>> ELSE insert_by_len(sort_longest_first(d, n - 1), d[n][1])
country_names == SelectSeq(sort_longest_first(name_to_code, Len(name_to_code)), LAMBDA nm : Len(nm) > 2)
country_codes ==
  FlatMap(LAMBDA kv : IF Len(kv[1]) = 2 THEN <<kv[1]>> ELSE <<>>, code_to_name)
\* one alternative of the names' alternation, under re.IGNORECASE
LitNoCase(t, i, w) ==
  IF i + Len(w) - 1 <= Len(t) /\ lower(SubSeq(t, i, i + Len(w) - 1)) = lower(w)
  THEN <<i + Len(w)>> ELSE <<>>
\* \b(name1|name2|...)\b
country_patternAt(t, i) ==
  IF ~Boundary(t, i) THEN <<>>
  ELSE FlatMap(LAMBDA nm :
         FlatMap(LAMBDA p : IF Boundary(t, p) THEN <<Match(t, i, p, i, p, p, p)>> ELSE <<>>,
                 LitNoCase(t, i, nm)),
         country_names)
\* \b(C1|C2|...)\b
code_patternAt(t, i) ==
  IF ~Boundary(t, i) THEN <<>>
  ELSE FlatMap(LAMBDA c :
         FlatMap(LAMBDA p : IF Boundary(t, p) THEN <<Match(t, i, p, i, p, p, p)>> ELSE <<>>,
                 Lit(t, i, c)),
         country_codes)
\* WorldGeographyExtractor.find_country_mentions: (start, end, code, name),
\* positions counted from 1, end one past the last character.
find_country_mentions(t) ==
  (IF country_names = <<>> THEN <<>>
   ELSE FlatMap(LAMBDA m :
          LET name_lower == lower(m.g1)
          IN IF Has(name_to_code, name_lower)
             THEN LET code == Get(name_to_code, name_lower)
                  IN <<[s |-> m.s, e |-> m.e, code |-> code, name |-> GetOr(code_to_name, code, m.g1)]>>
             ELSE <<>>,
          FindIter(country_patternAt, t)))
  \o
  (IF country_codes = <<>> THEN <<>>
   ELSE FlatMap(LAMBDA m :
          IF Has(code_to_name, m.g1)
          THEN <<[s |-> m.s, e |-> m.e, code |-> m.g1, name |-> Get(code_to_name, m.g1)]>>
          ELSE <<>>,
          FindIter(code_patternAt, t)))

\* [A-Z][a-zÀ-ɏ]+(?:[\s-][A-Z][a-zÀ-ɏ]+)*
WorldCity(t, i) == CapWords(t, i, LowerW, SpaceHyphen, FALSE)
\* Pattern 1: \b(CITY),\s*([A-Z][a-zÀ-ɏ]+(?:\s+[A-Z][a-zÀ-ɏ]+)*)\b
wpattern1At(t, i) ==
  IF ~Boundary(t, i) THEN <<>>
  ELSE FlatMap(LAMBDA p1 :
         FlatMap(LAMBDA p2 :
           FlatMap(LAMBDA p3 :
             FlatMap(LAMBDA p4 :
               IF Boundary(t, p4) THEN <<Match(t, i, p4, i, p1, p3, p4)>> ELSE <<>>,
               CapWords(t, p3, LowerW, WhiteSpace, TRUE)),
             Star(t, p2, WhiteSpace)),
           Lit(t, p1, <<",">>)),
         WorldCity(t, i))
\* [A-Z]{2,}|[A-Z][a-z]+(?:\s+[A-Z][a-z]+)*
ParenCountry(t, i) ==
  FlatMap(LAMBDA p : Plus(t, p, Upper), One(t, i, Upper)) \o CapWords(t, i, Lower, WhiteSpace, TRUE)
\* Pattern 2: \b(CITY)\s*\((COUNTRY)\)
wpattern2At(t, i) ==
  IF ~Boundary(t, i) THEN <<>>
  ELSE FlatMap(LAMBDA p1 :
         FlatMap(LAMBDA p2 :
           FlatMap(LAMBDA p3 :
             FlatMap(LAMBDA p4 :
               FlatMap(LAMBDA p5 : <<Match(t, i, p5, i, p1, p3, p4)>>, Lit(t, p4, <<")">>)),
               ParenCountry(t, p3)),
             Lit(t, p2, <<"(">>)),
           Star(t, p1, WhiteSpace)),
         WorldCity(t, i))
\* Pattern 3: \b(CITY),\s*([A-Z]{2})\b
wpattern3At(t, i) ==
  IF ~Boundary(t, i) THEN <<>>
  ELSE FlatMap(LAMBDA p1 :
         FlatMap(LAMBDA p2 :
           FlatMap(LAMBDA p3 :
             FlatMap(LAMBDA p4 :
               IF Boundary(t, p4) THEN <<Match(t, i, p4, i, p1, p3, p4)>> ELSE <<>>,
               TwoUpper(t, p3)),
             Star(t, p2, WhiteSpace)),
           Lit(t, p1, <<",">>)),
         WorldCity(t, i))
\* city_pattern: \b([A-Z][a-zÀ-ɏ]+(?:[\s-][A-Z][a-zÀ-ɏ]+)?)\b
OptCapWord(t, p) ==
  FlatMap(LAMBDA q : FlatMap(LAMBDA r : Plus(t, r, LowerW), One(t, q, Upper)), One(t, p, SpaceHyphen))
  \o <<p>>
city_patternAt(t, i) ==
  IF ~Boundary(t, i) THEN <<>>
  ELSE FlatMap(LAMBDA p1 :
         FlatMap(LAMBDA p2 :
           FlatMap(LAMBDA p3 :
             IF Boundary(t, p3) THEN <<Match(t, i, p3, i, p3, p3, p3)>> ELSE <<>>,
             OptCapWord(t, p2)),
           Plus(t, p1, LowerW)),
         One(t, i, Upper))
us_states ==
  {<<"A", "L">>, <<"A", "K">>, <<"A", "Z">>, <<"A", "R">>, <<"C", "A">>, <<"C", "O">>,
   <<"C", "T">>, <<"D", "E">>, <<"F", "L">>, <<"G", "A">>, <<"H", "I">>, <<"I", "D">>,
   <<"I", "L">>, <<"I", "N">>, <<"I", "A">>, <<"K", "S">>, <<"K", "Y">>, <<"L", "A">>,
   <<"M", "E">>, <<"M", "D">>, <<"M", "A">>, <<"M", "I">>, <<"M", "N">>, <<"M", "S">>,
   <<"M", "O">>, <<"M", "T">>, <<"N", "E">>, <<"N", "V">>, <<"N", "H">>, <<"N", "J">>,
   <<"N", "M">>, <<"N", "Y">>, <<"N", "C">>, <<"N", "D">>, <<"O", "H">>, <<"O", "K">>,
   <<"O", "R">>, <<"P", "A">>, <<"R", "I">>, <<"S", "C">>, <<"S", "D">>, <<"T", "N">>,
   <<"T", "X">>, <<"U", "T">>, <<"V", "T">>, <<"V", "A">>, <<"W", "A">>, <<"W", "V">>,
   <<"W", "I">>, <<"W", "Y">>, <<"D", "C">>}

\* a candidate of the world extractor
Triple(city, country_name, country_code) == <<city, country_name, country_code>>
wregex1_out(t, locations) ==
  FlatMap(LAMBDA m :
    IF Has(name_to_code, lower(m.g2))
    THEN LET country_code == Get(name_to_code, lower(m.g2))
             country_name == GetOr(code_to_name, country_code, m.g2)
         IN IF Has(locations, Join(lower(m.g1), lower(country_name)))
            THEN <<Triple(m.g1, country_name, country_code)>> ELSE <<>>
    ELSE <<>>,
    FindIter(wpattern1At, t))
wregex2_out(t, locations) ==
  FlatMap(LAMBDA m :
    LET country_code ==
          IF Has(name_to_code, lower(m.g2)) THEN Get(name_to_code, lower(m.g2))
          ELSE IF Has(code_to_name, upper(m.g2)) THEN upper(m.g2)
          ELSE <<>>
    IN IF country_code # <<>>
       THEN LET country_name == GetOr(code_to_name, country_code, m.g2)
            IN IF Has(locations, Join(lower(m.g1), lower(country_name)))
               THEN <<Triple(m.g1, country_name, country_code)>> ELSE <<>>
       ELSE <<>>,
    FindIter(wpattern2At, t))
wregex3_out(t, locations) ==
  FlatMap(LAMBDA m :
    IF m.g2 \in us_states THEN <<>>
    ELSE LET actual_code == IF m.g2 = UK THEN GB ELSE m.g2
         IN IF Has(code_to_name, actual_code)
            THEN LET country_name == Get(code_to_name, actual_code)
                 IN IF Has(locations, Join(lower(m.g1), lower(country_name)))
                    THEN <<Triple(m.g1, country_name, actual_code)>> ELSE <<>>
            ELSE <<>>,
    FindIter(wpattern3At, t))
\* the characters scanned on each side of a country mention
WINDOW == 100
Max(a, b) == IF a > b THEN a ELSE b
Min(a, b) == IF a < b THEN a ELSE b
\* text[window_start:window_end] around a mention
mention_only(t, mention) == SubSeq(t, mention.s, mention.e - 1)
window_of(t, mention) ==
  LET window_start == Max(0, (mention.s - 1) - WINDOW)
      window_end == Min(Len(t), (mention.e - 1) + WINDOW)
  IN SubSeq(t, window_start + 1, window_end)
\* Pattern 4 over one window: the cities appended and found_cities after it
RECURSIVE scan_unseen(_, _, _, _, _)
scan_unseen(ms, k, mention, locations, acc) ==
  IF k > Len(ms) THEN acc
  ELSE IF Has(locations, Join(lower(ms[k].g1), lower(mention.name)))
  THEN scan_unseen(ms, k + 1, mention, locations,
         [out |-> Append(acc.out, Triple(ms[k].g1, mention.name, mention.code)),
          found_cities |-> acc.found_cities \cup {lower(ms[k].g1)}])
  ELSE scan_unseen(ms, k + 1, mention, locations, acc)
RECURSIVE window_scan(_, _, _, _, _)
window_scan(ms, k, mention, locations, acc) ==
  IF k > Len(ms) THEN acc
  ELSE LET city == ms[k].g1
           city_lower == lower(city)
       IN IF city_lower \in acc.found_cities
          THEN window_scan(ms, k + 1, mention, locations, acc)
          ELSE IF Has(locations, Join(city_lower, lower(mention.name)))
          THEN window_scan(ms, k + 1, mention, locations,
                 [out |-> Append(acc.out, Triple(city, mention.name, mention.code)),
                  found_cities |-> acc.found_cities \cup {city_lower}])
          ELSE window_scan(ms, k + 1, mention, locations, acc)
RECURSIVE proximity(_, _, _, _, _)
proximity(t, mentions, k, locations, acc) ==
  IF k > Len(mentions) THEN acc
  ELSE proximity(t, mentions, k + 1, locations,
         window_scan(FindIter(city_patternAt, window_of(t, mentions[k])), 1, mentions[k],
                     locations, acc))
\* the longest text that is scanned
TEXT_LIMIT == 50000
\* `if not country_mentions`
goes_on(country_mentions) == FALSE
no_country_mentions(country_mentions) == country_mentions = <<>>
\* WorldGeographyExtractor.extract_locations
extract_locations(text, locations) ==
  IF text = <<>> THEN <<>>
  ELSE LET t == IF Len(text) > TEXT_LIMIT THEN SubSeq(text, 1, TEXT_LIMIT) ELSE text
           country_mentions == find_country_mentions(t)
       IN IF no_country_mentions(country_mentions) THEN <<>>
          ELSE LET direct == wregex1_out(t, locations) \o wregex2_out(t, locations)
                               \o wregex3_out(t, locations)
               IN proximity(t, country_mentions, 1, locations,
                    [out |-> direct,
                     found_cities |-> {lower(direct[i][1]) : i \in 1..Len(direct)}]).out
\* WorldGeographyExtractor.validate_and_geocode
world_record(loc) ==
  [name |-> loc.name, country |-> loc.country, country_code |-> loc.country_code,
   lat |-> loc.lat, lng |-> loc.lng, population |-> loc.population, type |-> "city"]
world_validate_as_written(locations, city, country_name, country_code) ==
  IF Has(locations, Join(city, country_name)) THEN world_record(Get(locations, Join(city, country_name)))
  ELSE None
world_validate_and_geocode(locations, city, country_name, country_code) ==
  LET key == lower(Join(city, country_name))
      key_ascii == Join(lower(city), lower(country_name))
  IN IF Has(locations, key) THEN world_record(Get(locations, key))
     ELSE IF Has(locations, key_ascii) THEN world_record(Get(locations, key_ascii))
     ELSE None
\* process_documents (world): the canonical key of a counted record
world_canonical_key(v) == IF ~has_lat(v) THEN NoKey ELSE lower(Join(v.name, v.country))

\* ------------------------------------------------------------ aggregation
\* doc ids are kept for a key while its count is at most this
DOC_IDS_CAP == 100
\* sample ids stored per record
SAMPLE_SIZE == 10
Field(r, f, dflt) == IF f \in DOMAIN r THEN r[f] ELSE dflt
new_entry == [count |-> 0, doc_ids |-> <<>>, info |-> None]
\* geo_counts[key] after one more document is counted for key
count_below_cap(entry, validated, doc_id) ==
  [count |-> entry.count + 1,
   info |-> validated,
   doc_ids |-> IF entry.count + 1 < DOC_IDS_CAP THEN Append(entry.doc_ids, doc_id)
               ELSE entry.doc_ids]
count_one(entry, validated, doc_id) ==
  [count |-> entry.count + 1,
   info |-> validated,
   doc_ids |-> IF entry.count + 1 <= DOC_IDS_CAP THEN Append(entry.doc_ids, doc_id)
               ELSE entry.doc_ids]
\* key not in seen_in_doc
never_seen(key, seen_in_doc) == TRUE
not_seen(key, seen_in_doc) == key \notin seen_in_doc
\* process_documents, the "Validate and count" loop of one document: vs are
\* the validated candidates in order, ks their canonical keys.
RECURSIVE stop_at_none(_, _, _, _, _, _)
stop_at_none(geo_counts, vs, ks, k, seen_in_doc, doc_id) ==
  IF k > Len(vs) \/ vs[k] = None THEN geo_counts
  ELSE IF ks[k] # NoKey /\ not_seen(ks[k], seen_in_doc)
  THEN stop_at_none(Put(geo_counts, ks[k], count_one(GetOr(geo_counts, ks[k], new_entry), vs[k], doc_id)),
                    vs, ks, k + 1, seen_in_doc \cup {ks[k]}, doc_id)
  ELSE stop_at_none(geo_counts, vs, ks, k + 1, seen_in_doc, doc_id)
RECURSIVE count_loop(_, _, _, _, _, _)
count_loop(geo_counts, vs, ks, k, seen_in_doc, doc_id) ==
  IF k > Len(vs) THEN geo_counts
  ELSE IF ks[k] # NoKey /\ not_seen(ks[k], seen_in_doc)
  THEN count_loop(Put(geo_counts, ks[k], count_one(GetOr(geo_counts, ks[k], new_entry), vs[k], doc_id)),
                  vs, ks, k + 1, seen_in_doc \cup {ks[k]}, doc_id)
  ELSE count_loop(geo_counts, vs, ks, k + 1, seen_in_doc, doc_id)
\* doc.get(f, '') or ''
text_or_empty(doc, f) == IF f \in DOMAIN doc THEN doc[f] ELSE <<>>
\* f"{title} {text}"
text_alone(doc) == text_or_empty(doc, "text")
full_text(doc) == text_or_empty(doc, "title") \o <<" ">> \o text_or_empty(doc, "text")
\* the validated candidates of a document
validate_all(gz, raw_locations) ==
  FlatMap(LAMBDA loc : <<validate_and_geocode(gz, loc)>>, raw_locations)
validated_domestic(gz, common_names, doc) ==
  validate_all(gz, extract_locations_regex(full_text(doc), common_names))
world_validate_all(locations, raw_locations) ==
  FlatMap(LAMBDA loc : <<world_validate_and_geocode(locations, loc[1], loc[2], loc[3])>>, raw_locations)
validated_world(locations, doc) ==
  world_validate_all(locations, extract_locations(full_text(doc), locations))
\* the stored record of one key
every_id(doc_ids) == doc_ids
sample_of(doc_ids) == SubSeq(doc_ids, 1, Min(Len(doc_ids), SAMPLE_SIZE))
geo_doc_domestic(key, data, now) ==
  LET loc_type == Field(data.info, "type", "place")
  IN [location_key |-> key, name |-> Field(data.info, "name", key),
      state |-> IF loc_type = "state" THEN <<>> ELSE Field(data.info, "state", <<>>),
      state_abbrev |-> IF loc_type = "state" THEN <<>> ELSE Field(data.info, "state_abbrev", <<>>),
      county |-> Field(data.info, "county", <<>>),
      lat |-> data.info.lat, lng |-> data.info.lng, count |-> data.count, type |-> loc_type,
      sample_doc_ids |-> sample_of(data.doc_ids), updated_at |-> now]
geo_doc_world(key, data, now) ==
  [location_key |-> key, name |-> Field(data.info, "name", key),
   country |-> Field(data.info, "country", <<>>),
   country_code |-> Field(data.info, "country_code", <<>>),
   lat |-> data.info.lat, lng |-> data.info.lng, population |-> Field(data.info, "population", 0),
   count |-> data.count, type |-> "city",
   sample_doc_ids |-> sample_of(data.doc_ids), updated_at |-> now]
\* geo_docs: one record per key of geo_counts, in the table's order
build_geo_docs(variant, geo_counts, now) ==
  FlatMap(LAMBDA kv :
    IF kv[2].info # None /\ kv[2].count >= 1
    THEN <<IF variant = "domestic" THEN geo_doc_domestic(kv[1], kv[2], now)
           ELSE geo_doc_world(kv[1], kv[2], now)>>
    ELSE <<>>,
    geo_counts)

\* ------------------------------------------------------------ query layer
\* app.get_geographies with its default parameters: the records with
\* count >= 1 and coordinates, by descending count.
RECURSIVE insert_by_count(_, _)
insert_by_count(sorted, r) ==
  IF sorted = <<>> THEN <<r>>
  ELSE IF r.count > sorted[1].count THEN <<r>> \o sorted
  ELSE <<sorted[1]>> \o insert_by_count(Tail(sorted), r)
RECURSIVE sort_by_count(_, _)
sort_by_count(rs, n) == IF n = 0 THEN <<>> ELSE insert_by_count(sort_by_count(rs, n - 1), rs[n])
get_geographies(collection) ==
  LET found == SelectSeq(collection,
                         LAMBDA r : r.count >= 1 /\ "lat" \in DOMAIN r /\ "lng" \in DOMAIN r)
      results == sort_by_count(found, Len(found))
  IN [i \in 1..Len(results) |-> [location_key |-> results[i].location_key, count |-> results[i].count]]

\* ------------------------------------------------------------ installation
\* The reference data of the modelled installation: the rows of the census
\* and GeoNames files given to the setup scripts, and the names file.
DomRows ==
  << Row(Boston, MA, Suffolk, 42, -71), Row(Springfield, IL, Sangamon, 39, -89),
     Row(Springfield, MA, Hampden, 42, -72), Row(Charleston, WV, Kanawha, 38, -81),
     Row(Washington, DC, DistrictOfColumbia, 38, -77), Row(Virginia, IL, Cass, 39, -90) >>
GZ == Gazetteer(DomRows, <<>>)
\* us_counties.json, where the installation has one
CookCountyEntry ==
  [name |-> CookCounty, state |-> Illinois, state_abbrev |-> IL, county |-> CookCounty,
   lat |-> 41, lng |-> -87, type |-> "county"]
CountyTable ==
  << <<lower(Join(CookCounty, Illinois)), CookCountyEntry>>, <<lower(CookCounty), CookCountyEntry>> >>
GZC == Gazetteer(DomRows, CountyTable)
COMMON_NAMES == {lower(Stephen)}
WorldRows ==
  << WRow(Lyon, Lyon, FR, 45, 4, 500), WRow(London, London, GB, 51, 0, 8000),
     WRow(Windsor, Windsor, CA, 42, -83, 200), WRow(Windsor, Windsor, GB, 51, -1, 30),
     WRow(Nazareth, Nazareth, IL, 32, 35, 70), WRow(Paris, Paris, FR, 48, 2, 2000) >>
LOCS == parse_cities(WorldRows)
\* The files of the data directory the constructors read, and those the
\* setup scripts write (setup_census_data writes no county table).
reference_files(v) ==
  IF v = "domestic"
  THEN {"us_locations.json", "city_states_index.json", "states.json", "us_counties.json"}
  ELSE {"world_locations.json", "city_countries_index.json", "countries.json"}
setup_output(v) == reference_files(v) \ {"us_counties.json"}
FileNotFoundError == [raised |-> TRUE]
Loaded(counties) == [raised |-> FALSE, counties |-> counties]
\* GeographyExtractor._load_census_data: the explicit check of
\* us_locations.json, the two open() calls, and os.path.exists for the
\* county table
exists_only(data_dir) ==
  IF "us_locations.json" \notin data_dir THEN FileNotFoundError
  ELSE Loaded("us_counties.json" \in data_dir)
load_census_data(data_dir) ==
  IF "us_locations.json" \notin data_dir THEN FileNotFoundError
  ELSE IF "city_states_index.json" \notin data_dir THEN FileNotFoundError
  ELSE IF "states.json" \notin data_dir THEN FileNotFoundError
  ELSE Loaded("us_counties.json" \in data_dir)
\* WorldGeographyExtractor._load_world_data
load_world_data(data_dir) ==
  IF "world_locations.json" \notin data_dir THEN FileNotFoundError
  ELSE IF "city_countries_index.json" \notin data_dir THEN FileNotFoundError
  ELSE IF "countries.json" \notin data_dir THEN FileNotFoundError
  ELSE Loaded(FALSE)
\* GeographyExtractor() / WorldGeographyExtractor()
construct(v, data_dir) == IF v = "domestic" THEN load_census_data(data_dir) ELSE load_world_data(data_dir)

\* The documents a corpus is made of.
DomDocs ==
  << [title |-> <<>>, text |-> <<"B", "o", "s", "t", "o", "n", ",", " ", "M", "a", "s", "s", ".">>],
     [title |-> <<"m", "e", "m", "o">>, text |-> <<"v", "i", "s", "i", "t", " ", "B", "o", "s", "t", "o", "n", ",", " ", "M", "A", " ", "a", "n", "d", " ", "B", "o", "s", "t", "o", "n", ",", " ", "M", "a", "s", "s", "a", "c", "h", "u", "s", "e", "t", "t", "s">>],
     [title |-> <<"S", "p", "r", "i", "n", "g", "f", "i", "e", "l", "d", ",", " ", "I", "l", "l", ".">>],
     [title |-> <<>>, text |-> <<"C", "h", "a", "r", "l", "e", "s", "t", "o", "n", ",", " ", "W", ".", "V", "a", ".", " ", "a", "n", "d", " ", "C", "o", "o", "k", " ", "C", "o", "u", "n", "t", "y">>],
     [title |-> <<"m", "e", "m", "o">>],
     [null |-> {"text"}],
     [title |-> <<>>, text |-> <<"S", "a", "l", "e", "m", ",", " ", "M", "A", " ", "a", "n", "d", " ", "B", "o", "s", "t", "o", "n", ",", " ", "M", "A", " ", "o", "r", " ", "G", "u", "a", "m">>] >>
\* A field of a document that is absent is not in its domain; one that is
\* null is not in its domain either and is named in the document's `null`.
WorldDocs ==
  << [title |-> <<>>, text |-> <<"i", "n", " ", "F", "r", "a", "n", "c", "e", ",", " ", "t", "h", "e", " ", "d", "e", "l", "e", "g", "a", "t", "i", "o", "n", " ", "v", "i", "s", "i", "t", "e", "d", " ", "L", "y", "o", "n", " ", "f", "o", "r", " ", "t", "a", "l", "k", "s">>],
     [title |-> <<"L", "y", "o", "n", ",", " ", "F", "r", "a", "n", "c", "e">>, text |-> <<"a", "n", "d", " ", "a", "g", "a", "i", "n", " ", "L", "y", "o", "n", " ", "(", "F", "R", ")", ",", " ", "t", "h", "e", "n", " ", "P", "a", "r", "i", "s", ",", " ", "F", "R">>],
     [text |-> <<"W", "i", "n", "d", "s", "o", "r", ",", " ", "C", "A">>],
     [title |-> <<"F", "r", "a", "n", "c", "e">>, text |-> [i \in 1..TEXT_LIMIT |-> "x"]],
     [title |-> <<"L", "y", "o", "n", ",", " ", "F", "r", "a", "n", "c", "e">>],
     [null |-> {"text"}],
     [null |-> {"title"}, text |-> <<"L", "o", "n", "d", "o", "n", ",", " ", "U", "K", " ", "a", "n", "d", " ", "P", "a", "r", "i", "s", ",", " ", "F", "r", "a", "n", "c", "e">>] >>
Docs(v) == IF v = "domestic" THEN DomDocs ELSE WorldDocs
\* The validated candidates of the documents, computed once.
\* (the documents the world query leaves out are never given to the extractor)
DomValidated == FlatMap(LAMBDA doc : <<validated_domestic(GZ, COMMON_NAMES, doc)>>, DomDocs)
DomValidatedCounties == FlatMap(LAMBDA doc : <<validated_domestic(GZC, COMMON_NAMES, doc)>>, DomDocs)
WorldValidated ==
  FlatMap(LAMBDA doc : <<IF Len(text_or_empty(doc, "text")) < TEXT_LIMIT
                         THEN validated_world(LOCS, doc) ELSE <<>> >>, WorldDocs)
validated_of(v, p) == IF v = "domestic" THEN DomValidated[p] ELSE WorldValidated[p]
\* the validated candidates an extractor finds in document p of Docs
validated_by(ex, v, p) ==
  IF v = "domestic" /\ ex.counties THEN DomValidatedCounties[p] ELSE validated_of(v, p)
keys_of(v, vs) ==
  [i \in 1..Len(vs) |-> IF v = "domestic" THEN canonical_key(vs[i]) ELSE world_canonical_key(vs[i])]
\* the loop body of process_documents after extraction and validation
carry_seen(v, geo_counts, vs, doc_id) ==
  count_loop(geo_counts, vs, keys_of(v, vs), 1, {geo_counts[i][1] : i \in 1..Len(geo_counts)}, doc_id)
count_doc(v, geo_counts, vs, doc_id) == count_loop(geo_counts, vs, keys_of(v, vs), 1, {}, doc_id)

\* ------------------------------------------------------------ corpus
\* A corpus is n documents; document i has id i and is the document
\* pattern[((i - 1) % Len(pattern)) + 1] of Docs.
MaxDocs == 101
FewDocs == 3
SmallLimit == 2
Patterns == {<<1>>, <<2>>, <<2, 1>>, <<3, 1, 4>>, <<5, 3, 6>>, <<7, 4>>}
Sizes == {0, FewDocs, MaxDocs}
Limits == {[given |-> FALSE]} \cup {[given |-> TRUE, value |-> L] : L \in {0, SmallLimit, MaxDocs + 1}}
doc_at(v, c, i) == Docs(v)[c.pattern[((i - 1) % Len(c.pattern)) + 1]]
validated_at(v, c, i) == validated_of(v, c.pattern[((i - 1) % Len(c.pattern)) + 1])
extracted_at(ex, v, c, i) == validated_by(ex, v, c.pattern[((i - 1) % Len(c.pattern)) + 1])
\* db.documents.find(query): the ids of the documents the cursor yields, in
\* order; the world query keeps the documents whose text is shorter than
\* 50000 characters.
find_documents(v, c) ==
  SelectSeq([i \in 1..c.n |-> i],
            LAMBDA i : v = "domestic" \/ Len(text_or_empty(doc_at(v, c, i), "text")) < TEXT_LIMIT)
\* `if limit:` — None and 0 are both false
truthy(limit) == limit.given /\ limit.value # 0
\* cursor.limit(limit)
cursor_limit(ids, limit) == IF truthy(limit) THEN SubSeq(ids, 1, Min(Len(ids), limit.value)) ELSE ids
\* collection.drop()
keep(coll) == coll
drop(coll) == <<>>
\* geo_counts = defaultdict(...): the table a run starts from
stale_counts(earlier) == earlier
new_geo_counts(earlier) == <<>>
\* The record sets left by an earlier run on another corpus.
DomPrior ==
  << [location_key |-> lower(Join(Boston, Massachusetts)), name |-> Boston, state |-> Massachusetts,
      state_abbrev |-> MA, county |-> Suffolk, lat |-> 42, lng |-> -71, count |-> 7, type |-> "place",
      sample_doc_ids |-> <<901, 902, 903, 904, 905, 906, 907>>, updated_at |-> 0],
     [location_key |-> lower(Join(Charleston, WestVirginia)), name |-> Charleston, state |-> WestVirginia,
      state_abbrev |-> WV, county |-> Kanawha, lat |-> 38, lng |-> -81, count |-> 1, type |-> "place",
      sample_doc_ids |-> <<903>>, updated_at |-> 0] >>
WorldPrior ==
  << [location_key |-> lower(Join(Lyon, France)), name |-> Lyon, country |-> France, country_code |-> FR,
      lat |-> 45, lng |-> 4, population |-> 500, count |-> 7, type |-> "city",
      sample_doc_ids |-> <<901, 902, 903, 904, 905, 906, 907>>, updated_at |-> 0],
     [location_key |-> lower(Join(London, UnitedKingdom)), name |-> London, country |-> UnitedKingdom,
      country_code |-> GB, lat |-> 51, lng |-> 0, population |-> 8000, count |-> 1, type |-> "city",
      sample_doc_ids |-> <<903>>, updated_at |-> 0] >>
Priors(v) == {<<>>, IF v = "domestic" THEN DomPrior ELSE WorldPrior}

\* ------------------------------------------------------------ state
VARIABLES
  variant,      \* "domestic" or "world": which process_documents runs
  corpus,       \* db.documents: [pattern, n]
  limit,        \* the limit argument: [given |-> FALSE] is None
  pc,           \* where process_documents is
  run,          \* number of the run of process_documents
  cursor,       \* ids the cursor yields, in order
  processed,    \* documents processed in this run
  geo_counts,   \* key -> [count, doc_ids, info]
  geo_docs,     \* records to insert
  inserted,     \* how many of geo_docs insert_many has written
  collection,   \* db.geography_counts / db.world_geography_counts
  previous,     \* the collection when the run started
  stored,       \* the collection at the end of each run
  readerView,   \* what the query layer returned last, during this run
  call,         \* a call of one function of the extractor
  ret,          \* its result
  data_dir,     \* the reference files present in the data directory
  extractor,    \* what the extractor's constructor returned or raised
  shards        \* the worker pool of a sharded aggregation
vars == <<variant, corpus, limit, pc, run, cursor, processed, geo_counts, geo_docs, inserted,
          collection, previous, stored, readerView, call, ret, data_dir, extractor, shards>>
runVars == <<variant, corpus, limit, pc, run, cursor, processed, geo_counts, geo_docs, inserted,
             collection, previous, stored, readerView, data_dir, extractor, shards>>
runVars_but_shards == <<variant, corpus, limit, pc, run, cursor, processed, geo_counts, geo_docs,
                       inserted, collection, previous, stored, readerView, data_dir, extractor>>
MaxRuns == 2
NoCall == [kind |-> "none"]
NotRead == [read |-> FALSE, view |-> <<>>]
NotConstructed == [raised |-> FALSE, counties |-> FALSE]
NoShards == [partitioned |-> FALSE]

Init ==
  /\ variant \in {"domestic", "world"}
  /\ corpus \in [pattern : Patterns, n : Sizes]
  /\ limit \in Limits
  /\ pc = "idle"
  /\ run = 0
  /\ cursor = <<>>
  /\ processed = 0
  /\ geo_counts = <<>>
  /\ geo_docs = <<>>
  /\ inserted = 0
  /\ collection \in Priors(variant)
  /\ previous = collection
  /\ stored = <<>>
  /\ readerView = NotRead
  /\ call = NoCall
  /\ ret = NoCall
  /\ data_dir = setup_output(variant)
  /\ extractor = NotConstructed
  /\ shards = NoShards

\* process_documents up to the loop: the extractor, the fresh geo_counts and
\* the cursor; an exception of the constructor ends the run there
swallowed(ex) == "streaming"
propagates(ex) == IF ex.raised THEN "failed" ELSE "streaming"
Start ==
  /\ pc = "idle" \/ (pc = "done" /\ run < MaxRuns)
  /\ extractor' = construct(variant, data_dir)
  /\ pc' = propagates(extractor')
  /\ run' = run + 1
  /\ geo_counts' = new_geo_counts(geo_counts)
  /\ processed' = 0
  /\ cursor' = IF extractor'.raised THEN <<>> ELSE cursor_limit(find_documents(variant, corpus), limit)
  /\ geo_docs' = <<>>
  /\ inserted' = 0
  /\ previous' = collection
  /\ readerView' = NotRead
  /\ UNCHANGED <<variant, corpus, limit, collection, stored, call, ret, data_dir, shards>>

\* one iteration of `for doc in cursor`
ProcessDoc ==
  /\ pc = "streaming"
  /\ processed < Len(cursor)
  /\ geo_counts' = count_doc(variant, geo_counts,
                             extracted_at(extractor, variant, corpus, cursor[processed + 1]),
                             cursor[processed + 1])
  /\ processed' = processed + 1
  /\ UNCHANGED <<variant, corpus, limit, pc, run, cursor, geo_docs, inserted, collection, previous,
                 stored, readerView, call, ret, data_dir, extractor, shards>>

\* `for doc in cursor` ends when the cursor has yielded its last document
stops_early(ids, n) == n >= 1 \/ n = Len(ids)
exhausted(ids, n) == n = Len(ids)
\* the cursor is exhausted: drop() and the building of geo_docs
DropAndBuild ==
  /\ pc = "streaming"
  /\ exhausted(cursor, processed)
  /\ collection' = drop(collection)
  /\ geo_docs' = build_geo_docs(variant, geo_counts, run)
  /\ pc' = "inserting"
  /\ UNCHANGED <<variant, corpus, limit, run, cursor, processed, geo_counts, inserted, previous,
                 stored, readerView, call, ret, data_dir, extractor, shards>>

\* insert_many(geo_docs) writes the records one after the other
InsertOne ==
  /\ pc = "inserting"
  /\ inserted < Len(geo_docs)
  /\ collection' = Append(collection, geo_docs[inserted + 1])
  /\ inserted' = inserted + 1
  /\ UNCHANGED <<variant, corpus, limit, pc, run, cursor, processed, geo_counts, geo_docs, previous,
                 stored, readerView, call, ret, data_dir, extractor, shards>>

\* process_documents returns
Return ==
  /\ pc = "inserting"
  /\ inserted = Len(geo_docs)
  /\ pc' = "done"
  /\ stored' = Append(stored, collection)
  /\ UNCHANGED <<variant, corpus, limit, run, cursor, processed, geo_counts, geo_docs, inserted,
                 collection, previous, readerView, call, ret, data_dir, extractor, shards>>

\* a request to the query layer while process_documents runs
Read ==
  /\ pc \in {"streaming", "inserting"}
  /\ readerView' = [read |-> TRUE, view |-> get_geographies(collection)]
  /\ UNCHANGED <<variant, corpus, limit, pc, run, cursor, processed, geo_counts, geo_docs, inserted,
                 collection, previous, stored, call, ret, data_dir, extractor, shards>>

Next == Start \/ ProcessDoc \/ DropAndBuild \/ InsertOne \/ Return \/ Read
Spec == Init /\ [][Next]_vars
\* process_documents is one sequential loop without a blocking step other
\* than the read of the stream: once begun, each of its steps is taken.
\* The runs over the empty and the small collection.
InitLive == Init /\ corpus.n <= FewDocs
SpecLive ==
  InitLive /\ [][Next]_vars /\ WF_vars(ProcessDoc) /\ WF_vars(DropAndBuild) /\ WF_vars(InsertOne)
    /\ WF_vars(Return)

\* ------------------------------------------------------------ single calls
\* A second specification: one call of one function of an extractor, on an
\* input drawn from the families below.
DomRows2 ==
  << Row(Springfield, MA, Hampden, 42, -72), Row(Springfield, IL, Sangamon, 39, -89),
     Row(Springfield, VA, Suffolk, 38, -77), Row(Boston, NY, Suffolk, 42, -78),
     Row(Washington, VA, Cass, 38, -78), Row(Washington, DC, DistrictOfColumbia, 38, -77),
     Row(Charleston, WV, Kanawha, 38, -81) >>
GZ2 == Gazetteer(DomRows2, <<>>)
\* a gazetteer with a county table, and with rows that name the state by its
\* code only or by its name only
SuffolkCounty == Suffolk \o <<" ">> \o County
SuffolkCountyEntry ==
  [name |-> SuffolkCounty, state |-> Massachusetts, state_abbrev |-> MA, county |-> SuffolkCounty,
   lat |-> 42, lng |-> -71, type |-> "county"]
CountyTable3 ==
  << <<lower(Join(CookCounty, Illinois)), CookCountyEntry>>,
     <<lower(Join(SuffolkCounty, MA)), SuffolkCountyEntry>> >>
DomRows3 ==
  << Row(Springfield, IL, Sangamon, 39, -89),
     [CITY |-> Washington, STATE_CODE |-> DC, STATE_NAME |-> <<>>, COUNTY |-> DistrictOfColumbia,
      LATITUDE |-> 38, LONGITUDE |-> -77],
     [CITY |-> Boston, STATE_CODE |-> MA, STATE_NAME |-> <<>>, COUNTY |-> Suffolk,
      LATITUDE |-> 42, LONGITUDE |-> -71],
     [CITY |-> Charleston, STATE_CODE |-> <<>>, STATE_NAME |-> WestVirginia, COUNTY |-> Kanawha,
      LATITUDE |-> 38, LONGITUDE |-> -81] >>
GZ3 == Gazetteer(DomRows3, CountyTable3)
\* a gazetteer whose source lists a place named "Cook County" in two states
DomRows4 ==
  << Row(CookCounty, IL, CookCounty, 41, -87), Row(CookCounty, MA, Suffolk, 42, -71),
     Row(Boston, MA, Suffolk, 42, -71) >>
GZ4 == Gazetteer(DomRows4, <<>>)
gazetteer(g) == IF g = 1 THEN GZ ELSE IF g = 2 THEN GZ2 ELSE IF g = 3 THEN GZ3 ELSE GZ4
ValidateArgs ==
  { Boston, Springfield, Virginia, Charleston, Washington, Paris, Massachusetts, MA, County,
    lower(Springfield), upper(Boston), <<" ">> \o Washington \o <<" ">>,
    Join(Boston, MA), Join(Boston, Massachusetts), Join(Springfield, Illinois), Join(Boston, NY),
    Suffolk \o <<" ">> \o County, Join(Suffolk \o <<" ">> \o County, MA),
    Join(SuffolkCounty, Massachusetts), Join(CookCounty, IL), Join(CookCounty, Illinois), Guam }
StateForms ==
  {OLD_STATE_ABBREVS[i][1] : i \in 1..Len(OLD_STATE_ABBREVS)}
    \cup {STATE_ABBREV[i][1] : i \in 1..Len(STATE_ABBREV)}
    \cup {STATE_ABBREV[i][2] : i \in 1..Len(STATE_ABBREV)}
DomCities == {Boston, Springfield, Charleston, Washington, Stephen}
\* the state codes written with a capital and a small letter ("Il", "Ma")
MixedForms == {title(lower(STATE_ABBREV[i][1])) : i \in 1..Len(STATE_ABBREV)}
\* what follows a place in a domestic text: nothing, or a comma and a region
RegionForms == StateForms \cup MixedForms \cup {<<>>}
DomPlaces == {Boston, Charleston, Stephen, CookCounty}
WorldCities == {Lyon, Windsor, London, Nazareth, Springfield}
Codes == {UK, GB, CA, IL, FR, MA}
Filler(n) == <<" ">> \o [i \in 1..n |-> "x"] \o <<" ">>
NearGap == 93
FarGap == 99
Gaps == {<<" ", "i", "n", " ">>, <<",", " ", "t", "h", "e", " ", "d", "e", "l", "e", "g", "a", "t", "i", "o", "n", " ", "v", "i", "s", "i", "t", "e", "d", " ">>, CommaSp, <<" ">>, Filler(NearGap), Filler(FarGap)}
\* the source files given to the setup scripts: two rows of the installation
\* and, before, between or after them, a row that may be malformed
CensusHeader == <<"STATE_CODE", "STATE_NAME", "CITY", "COUNTY", "LATITUDE", "LONGITUDE">>
without(header, c) == SelectSeq(header, LAMBDA x : x # c)
census_line(r, lat) ==
  <<Txt(r.STATE_CODE), Txt(r.STATE_NAME), Txt(r.CITY), Txt(r.COUNTY), lat, Num(r.LONGITUDE)>>
geoname_line(r, code, lat, pop) ==
  <<Num(1), Txt(r.name), Txt(r.asciiname), Txt(<<>>), lat, Num(r.longitude), Txt(<<"P">>),
    Txt(<<"P", "P", "L">>), Txt(code), Txt(<<>>), Txt(<<>>), Txt(<<>>), Txt(<<>>), Txt(<<>>), pop,
    Txt(<<>>), Num(0), Txt(<<"t", "z">>), Txt(<<"d">>)>>
insert_at(lines, at, line) == SubSeq(lines, 1, at - 1) \o <<line>> \o SubSeq(lines, at, Len(lines))
ZZ == <<"Z", "Z">>
US == <<"U", "S">>
Calls ==
  [kind : {"validate"}, gaz : {1, 2, 3}, arg : ValidateArgs]
    \cup [kind : {"validate_both"}, gaz : {1, 2, 3}, city : DomCities \cup {Salem},
          state : 1..Len(STATE_ABBREV)]
    \cup [kind : {"dom_doc"}, lead : {<<>>, <<"D", "o", "w", " ", "i", "n", " ">>}, city : DomCities, state : StateForms,
          trail : {<<>>, <<" ", "t", "o", "d", "a", "y">>}]
    \cup [kind : {"dom_extract"}, gaz : {1, 4}, lead : {<<>>, <<"D", "o", "w", " ", "i", "n", " ">>}, place : DomPlaces,
          region : RegionForms, trail : {<<>>, <<" ", "t", "o", "d", "a", "y">>}]
    \cup [kind : {"parse_cities_csv"},
          header : {CensusHeader, without(CensusHeader, "COUNTY"), without(CensusHeader, "LATITUDE")},
          keep : 0..Len(CensusHeader), lat : {Num(38), Txt(<<"n", "/", "a">>), Txt(<<>>)}, at : 1..3]
    \cup [kind : {"parse_cities"}, keep : {0, 3, MIN_PARTS - 1, MIN_PARTS, MIN_PARTS + 4},
          lat : {Num(48), Txt(<<"x">>)}, pop : {Num(2000), Txt(<<"m", "a", "n", "y">>), Txt(<<>>)},
          code : {FR, ZZ, US}, at : 1..3]
    \cup [kind : {"world_extract"}, city : WorldCities, code : Codes,
          trail : {<<>>, <<" ", "a", "n", "d", " ", "F", "r", "a", "n", "c", "e">>, <<" ", "o", "r", " ", "C", "A">>}]
    \cup [kind : {"world_doc"}, lead : {<<>>, <<"V", "i", "s", "i", "t", " ">>, <<"i", "n", " ">>, <<"i", "n", " ", "C", "a", "n", "a", "d", "a", " ", "o", "r", " ">>}, city : {Lyon, Windsor, Paris},
          gap : Gaps, country : {France, Canada, title(england)}, trail : {<<>>, <<" ", "f", "o", "r", " ", "t", "a", "l", "k", "s">>, <<" ", "o", "r", " ", "C", "a", "n", "a", "d", "a">>, <<"i", "a", "n", "s">>},
          city_first : BOOLEAN]
\* the row of a call, and the lines of its file
census_row_of(c) == SubSeq(census_line(DomRows[4], c.lat), 1, c.keep)
census_lines(c) ==
  insert_at(<<census_line(DomRows[1], Num(42)), census_line(DomRows[2], Num(39))>>, c.at, census_row_of(c))
geoname_line_of(c) == SubSeq(geoname_line(WorldRows[6], c.code, c.lat, c.pop), 1, c.keep)
geoname_lines_of(c) ==
  insert_at(<<geoname_line(WorldRows[1], FR, Num(45), Num(500)),
              geoname_line(WorldRows[2], GB, Num(51), Num(8000))>>, c.at, geoname_line_of(c))
\* the text of a call
call_text(c) ==
  IF c.kind = "dom_extract"
  THEN c.lead \o (IF c.region = <<>> THEN c.place ELSE Join(c.place, c.region)) \o c.trail
  ELSE IF c.kind = "dom_doc" THEN c.lead \o Join(c.city, c.state) \o c.trail
  ELSE IF c.kind = "world_extract" THEN Join(c.city, c.code) \o c.trail
  ELSE IF c.city_first THEN c.lead \o c.city \o c.gap \o c.country \o c.trail
  ELSE c.lead \o c.country \o c.gap \o c.city \o c.trail
NotReturned == [done |-> FALSE]
Returned(v) == [done |-> TRUE, value |-> v]

InitCall ==
  /\ variant = "domestic"
  /\ corpus = [pattern |-> <<1>>, n |-> 0]
  /\ limit = [given |-> FALSE]
  /\ pc = "idle"
  /\ run = 0
  /\ cursor = <<>>
  /\ processed = 0
  /\ geo_counts = <<>>
  /\ geo_docs = <<>>
  /\ inserted = 0
  /\ collection = <<>>
  /\ previous = <<>>
  /\ stored = <<>>
  /\ readerView = NotRead
  /\ call \in Calls
  /\ ret = NotReturned
  /\ data_dir = setup_output(variant)
  /\ extractor = NotConstructed
  /\ shards = NoShards

\* GeographyExtractor.validate_and_geocode(location_str)
CallValidate ==
  /\ call.kind = "validate" /\ ~ret.done
  /\ ret' = Returned(validate_and_geocode(gazetteer(call.gaz), call.arg))
  /\ UNCHANGED <<runVars, call>>
\* validate_and_geocode("City, ST") and validate_and_geocode("City, State Name")
CallValidateBoth ==
  /\ call.kind = "validate_both" /\ ~ret.done
  /\ ret' = Returned(<<validate_and_geocode(gazetteer(call.gaz), Join(call.city, STATE_ABBREV[call.state][1])),
                       validate_and_geocode(gazetteer(call.gaz), Join(call.city, STATE_ABBREV[call.state][2]))>>)
  /\ UNCHANGED <<runVars, call>>
\* setup_census_data.parse_cities_csv(filepath)
CallParseCitiesCsv ==
  /\ call.kind = "parse_cities_csv" /\ ~ret.done
  /\ ret' = Returned(parse_cities_csv_file(call.header, census_lines(call)))
  /\ UNCHANGED <<runVars, call>>
\* setup_world_data.parse_cities(filepath, country_info)
CallParseCities ==
  /\ call.kind = "parse_cities" /\ ~ret.done
  /\ ret' = Returned(parse_cities_file(geoname_lines_of(call)))
  /\ UNCHANGED <<runVars, call>>
\* extract_locations(full_text) and validate_and_geocode(loc) for each candidate
CallDomExtract ==
  /\ call.kind = "dom_extract" /\ ~ret.done
  /\ LET raw_locations == extract_locations_regex(call_text(call), COMMON_NAMES)
     IN ret' = Returned([raw_locations |-> raw_locations,
                         validated |-> validate_all(gazetteer(call.gaz), raw_locations)])
  /\ UNCHANGED <<runVars, call>>
\* the body of the domestic loop for one document, then the records it yields
CallDomDoc ==
  /\ call.kind = "dom_doc" /\ ~ret.done
  /\ ret' = Returned(build_geo_docs("domestic",
                count_doc("domestic", <<>>,
                  validated_domestic(GZ, COMMON_NAMES, [title |-> <<>>, text |-> call_text(call)]), 1), 1))
  /\ UNCHANGED <<runVars, call>>
\* WorldGeographyExtractor.extract_locations(text)
CallWorldExtract ==
  /\ call.kind = "world_extract" /\ ~ret.done
  /\ ret' = Returned(extract_locations(call_text(call), LOCS))
  /\ UNCHANGED <<runVars, call>>
\* extraction and validation of the world loop for one document
CallWorldDoc ==
  /\ call.kind = "world_doc" /\ ~ret.done
  /\ ret' = Returned(validated_world(LOCS, [title |-> <<>>, text |-> call_text(call)]))
  /\ UNCHANGED <<runVars, call>>
NextCall ==
  CallParseCitiesCsv \/ CallParseCities \/ CallValidate \/ CallValidateBoth \/ CallDomExtract \/ CallDomDoc \/ CallWorldExtract \/ CallWorldDoc
SpecCall == InitCall /\ [][NextCall]_vars

\* ------------------------------------------------------------ properties
count_of(counts, key) == IF Has(counts, key) THEN Get(counts, key).count ELSE 0
keys_in(counts) == {counts[i][1] : i \in 1..Len(counts)}
\* the keys a document is counted under
doc_keys(v, c, i) ==
  {keys_of(v, validated_at(v, c, i))[k] : k \in 1..Len(validated_at(v, c, i))} \ {NoKey}
\* the ids of the processed documents counted under key, in stream order
hits(key) ==
  SelectSeq(SubSeq(cursor, 1, processed), LAMBDA i : key \in doc_keys(variant, corpus, i))
ids_of(s) == {s[i] : i \in 1..Len(s)}

\* C1: while one document is processed every key's count grows by at most
\* one, however many of the document's candidates validate to that key, so
\* no count exceeds the number of documents processed.
C1_PerDocumentDedup ==
  /\ [](\A key \in keys_in(geo_counts) : count_of(geo_counts, key) <= processed)
  /\ [][ProcessDoc => \A key \in keys_in(geo_counts') :
                        count_of(geo_counts', key) <= count_of(geo_counts, key) + 1]_vars
\* a document with two candidates of one key has been processed, and counted once
C1_Witness ==
  /\ pc = "streaming" /\ processed >= 1
  /\ LET vs == validated_at(variant, corpus, cursor[processed])
         ks == keys_of(variant, vs)
     IN \E i, j \in 1..Len(ks) :
          /\ i < j /\ ks[i] # NoKey /\ ks[i] = ks[j]
          /\ count_of(geo_counts, ks[i]) = processed

\* C2: a stored record holds min(count, 10) sample ids; for a count above
\* 100 that is exactly 10 ids, each the id of one of the first 100 documents
\* counted under the key.
C2_SampleCap ==
  pc = "done" =>
    \A i \in 1..Len(collection) :
      LET r == collection[i]
          h == hits(r.location_key)
      IN /\ Len(r.sample_doc_ids) = Min(r.count, SAMPLE_SIZE)
         /\ r.count > DOC_IDS_CAP =>
              /\ Len(r.sample_doc_ids) = SAMPLE_SIZE
              /\ ids_of(r.sample_doc_ids) \subseteq ids_of(SubSeq(h, 1, DOC_IDS_CAP))
\* a record counted in more than 100 documents is stored
C2_Witness ==
  /\ pc = "done"
  /\ \E i \in 1..Len(collection) :
       collection[i].count > DOC_IDS_CAP /\ Len(collection[i].sample_doc_ids) = SAMPLE_SIZE

\* the records of a collection, as key and count
key_counts(coll) == [i \in 1..Len(coll) |-> <<coll[i].location_key, coll[i].count>>]
occurrences(s, x) == Cardinality({i \in 1..Len(s) : s[i] = x})
same_key_counts(a, b) ==
  /\ ids_of(key_counts(a)) = ids_of(key_counts(b))
  /\ \A x \in ids_of(key_counts(a)) : occurrences(key_counts(a), x) = occurrences(key_counts(b), x)
\* C3: after a second run on the same corpus and gazetteer the collection
\* holds the same keys with the same counts as after the first run.
C3_RerunIdempotent ==
  \A r \in 1..Len(stored) : same_key_counts(stored[1], stored[r])
\* a second run is done and a key was counted in several documents
C3_Witness ==
  /\ Len(stored) >= 2
  /\ \E i \in 1..Len(stored[2]) : stored[2][i].count > 1

\* (a request to the query layer is one find(), taken as a single step)
\* C4, as stated: whenever the query layer reads during a run it gets the
\* complete record set of the previous run or the complete set of the new run.
C4_AtomicReplace ==
  readerView.read =>
    \/ readerView.view = get_geographies(previous)
    \/ pc \in {"inserting", "done"} /\ readerView.view = get_geographies(geo_docs)
\* C4, amended: a read during a run returns the complete previous set or the
\* records of the new run written so far (none, some, or all of them, in
\* order), never old and new records together; when the run has returned the
\* collection is the complete new set.
C4_DropThenInsert ==
  /\ readerView.read =>
       \/ readerView.view = get_geographies(previous)
       \/ /\ pc \in {"inserting", "done"}
          /\ \E k \in 0..Len(geo_docs) : readerView.view = get_geographies(SubSeq(geo_docs, 1, k))
  /\ pc = "done" => collection = geo_docs
\* the query layer has seen a partly written collection
C4_Witness ==
  /\ readerView.read /\ pc = "inserting"
  /\ readerView.view # get_geographies(previous)
  /\ readerView.view # get_geographies(geo_docs)
  /\ readerView.view # <<>>

\* the regions the disambiguation index lists a bare name under
listed(gz, name) == GetOr(gz.city_states, strip(lower(name)), <<>>)
\* the disambiguation result the claim describes for a name and its list
disambiguated(r, l) ==
  /\ r # None
  /\ {"state", "lat", "lng", "ambiguous"} \subseteq DOMAIN r
  /\ r.state = l[1].state /\ r.lat = l[1].lat /\ r.lng = l[1].lng
  /\ IF Len(l) > 1
     THEN /\ r.ambiguous = TRUE
          /\ "possible_states" \in DOMAIN r
          /\ Len(r.possible_states) = Len(l)
     ELSE r.ambiguous = FALSE
\* C5, as stated: every bare name the index lists under N regions validates
\* to the first entry, flagged ambiguous with the N regions when N > 1 and
\* not flagged when N = 1.
C5_Disambiguation ==
  (call.kind = "validate" /\ ret.done /\ ~Contains(call.arg, <<",">>)
     /\ listed(gazetteer(call.gaz), call.arg) # <<>>)
  => disambiguated(ret.value, listed(gazetteer(call.gaz), call.arg))
\* C5, amended: this holds of the domestic validator for the bare names that
\* are not themselves keys of the place table or the county table (a name
\* that is, such as a state's name, gets the table's record, unflagged).
C5_DisambiguationOfUnlistedKeys ==
  (call.kind = "validate" /\ ret.done /\ ~Contains(call.arg, <<",">>)
     /\ listed(gazetteer(call.gaz), call.arg) # <<>>
     /\ ~Has(gazetteer(call.gaz).locations, strip(lower(call.arg)))
     /\ ~Has(gazetteer(call.gaz).counties, strip(lower(call.arg))))
  => disambiguated(ret.value, listed(gazetteer(call.gaz), call.arg))
\* a bare name listed under several states has been validated and flagged
C5_Witness ==
  /\ call.kind = "validate" /\ ret.done
  /\ Len(listed(gazetteer(call.gaz), call.arg)) > 1
  /\ ret.value # None /\ "ambiguous" \in DOMAIN ret.value /\ ret.value.ambiguous

stored_keys(records) == {records[i].location_key : i \in 1..Len(records)}
\* the names a state is written with: code, full name, old-style abbreviations
old_abbrevs_of(code) ==
  {OLD_STATE_ABBREVS[i][1] : i \in {j \in 1..Len(OLD_STATE_ABBREVS) : OLD_STATE_ABBREVS[j][2] = code}}
\* C6: a document with "City, Abbrev." or "City, Full State Name", for a city
\* of the gazetteer in that state, is counted under "city, full state name".
C6_OldStyleAbbreviation ==
  (call.kind = "dom_doc" /\ ret.done) =>
    \A i \in 1..Len(STATE_ABBREV) :
      LET code == STATE_ABBREV[i][1]
          full == STATE_ABBREV[i][2]
      IN (/\ call.state \in old_abbrevs_of(code) \cup {full}
          /\ Has(GZ.locations, lower(Join(call.city, full)))
          /\ lower(call.city) \notin COMMON_NAMES)
         => lower(Join(call.city, full)) \in stored_keys(ret.value)

in_seq(s, x) == \E i \in 1..Len(s) : s[i] = x
\* C7: for a text with "City, XX", XX a US state code, the world extractor
\* emits no candidate pairing City with the country of code XX.
C7_StateCodeExclusion ==
  (call.kind = "world_extract" /\ ret.done /\ call.code \in us_states) =>
    ~\E i \in 1..Len(ret.value) : ret.value[i][1] = call.city /\ ret.value[i][3] = call.code

\* C9: for a text with "City, UK" and "city, united kingdom" in the
\* gazetteer, extract_locations emits (City, United Kingdom, GB).
C9_UkIsGb ==
  (call.kind = "world_extract" /\ ret.done /\ call.code = UK
     /\ Has(LOCS, lower(Join(call.city, UnitedKingdom))))
  => in_seq(ret.value, <<call.city, UnitedKingdom, GB>>)

\* the name of the country a call mentions
country_of(c) == Get(code_to_name, Get(name_to_code, lower(c.country)))
\* the whole of the city lies in the 100 characters before the mention of the
\* country, or in the 100 characters after it
within_window(c) == Len(c.city) + Len(c.gap) <= WINDOW
\* "City, Country" in the text
adjacent(c) == c.city_first /\ c.gap = CommaSp
\* the city and the country of a call are words of its text: no letter
\* follows the later of them
whole_word(c) == c.trail = <<>> \/ c.trail[1] \notin WordChars
emitted(c, r) == \E i \in 1..Len(r) : r[i] # None /\ r[i].name = c.city /\ r[i].country = country_of(c)
before(c) == IF c.city_first THEN c.lead ELSE c.lead \o c.country \o c.gap
after(c) == IF c.city_first THEN c.gap \o c.country \o c.trail ELSE c.trail
\* s ends with a capitalized word and one space or hyphen
joined_before(s) ==
  /\ Len(s) >= 3 /\ s[Len(s)] \in SpaceHyphen
  /\ \E b \in 1..(Len(s) - 2) :
       /\ s[b] \in Upper
       /\ \A k \in (b + 1)..(Len(s) - 1) : s[k] \in LowerW
       /\ b = 1 \/ s[b - 1] \notin WordChars
\* s begins with one space or hyphen and a capitalized word
joined_after(s) == Len(s) >= 3 /\ s[1] \in SpaceHyphen /\ s[2] \in Upper /\ s[3] \in LowerW
\* the countries other than the call's that the text mentions and that have a
\* place of the city's name
rival_countries(c) ==
  {m.name : m \in {find_country_mentions(call_text(c))[i] :
                     i \in 1..Len(find_country_mentions(call_text(c)))}}
    \cap {n \in {code_to_name[i][2] : i \in 1..Len(code_to_name)} :
            n # country_of(c) /\ Has(LOCS, lower(Join(c.city, n)))}
stream_length == Len(find_documents(variant, corpus))
\* C10: with a limit L >= 0 exactly min(L, stream length) documents are
\* processed, and without a limit all of them.
C10_LimitContract ==
  pc \in {"inserting", "done"} =>
    processed = IF limit.given THEN Min(limit.value, stream_length) ELSE stream_length

\* ------------------------------------------------------------ startup
\* A third specification: runs of process_documents on data directories
\* that hold any part of the reference files.
InitSetup ==
  /\ variant \in {"domestic", "world"}
  /\ corpus \in [pattern : Patterns, n : {0, FewDocs}]
  /\ limit = [given |-> FALSE]
  /\ pc = "idle"
  /\ run = 0
  /\ cursor = <<>>
  /\ processed = 0
  /\ geo_counts = <<>>
  /\ geo_docs = <<>>
  /\ inserted = 0
  /\ collection \in Priors(variant)
  /\ previous = collection
  /\ stored = <<>>
  /\ readerView = NotRead
  /\ call = NoCall
  /\ ret = NoCall
  /\ data_dir \in SUBSET reference_files(variant)
  /\ extractor = NotConstructed
  /\ shards = NoShards
SpecSetup == InitSetup /\ [][Next]_vars

nothing_processed == pc = "failed" /\ processed = 0 /\ geo_counts = <<>> /\ collection = previous
\* C11 (as stated): when any reference file the constructor reads is absent
\* (place table, disambiguation index, state/country table, county table),
\* construction fails and the run ends before a document is processed.
C11_MissingFileIsFatal ==
  (run > 0 /\ reference_files(variant) \ data_dir # {}) => nothing_processed
\* the reference files without which the constructor raises
required_files(v) == reference_files(v) \ {"us_counties.json"}
\* C11 (amended): when the place table, the disambiguation index or the
\* state/country table is absent, construction fails and the run ends before a
\* document is processed; when these are present the constructor succeeds,
\* with an empty county table if the county table is absent.
C11_MissingRequiredFileIsFatal ==
  /\ (run > 0 /\ required_files(variant) \ data_dir # {}) => nothing_processed
  /\ (run > 0 /\ required_files(variant) \subseteq data_dir) =>
       (pc # "failed" /\ ~extractor.raised /\ extractor.counties = ("us_counties.json" \in data_dir))
C11_Witness ==
  /\ pc = "failed" /\ corpus.n > 0 /\ collection # <<>>
  /\ "us_locations.json" \in data_dir /\ "states.json" \notin data_dir

\* C29: when the constructor of the extractor fails, the run ends with the
\* result collection as the earlier run left it; the collection changes only
\* in a run whose extractor was built, and only once the whole stream has
\* been processed.
C29_FailedStartKeepsCollection ==
  /\ [](pc = "failed" => (extractor.raised /\ collection = previous /\ collection \in Priors(variant)))
  /\ [][collection' # collection =>
          (~extractor.raised /\ pc \in {"streaming", "inserting"} /\ processed = Len(cursor))]_vars
\* a start without any reference file has failed, and the records of the
\* earlier run are still there
C29_Witness ==
  /\ pc = "failed" /\ data_dir = {} /\ collection # <<>> /\ collection = previous

\* ------------------------------------------------------------ documents without text
\* the document the next iteration of the loop processes
next_doc == doc_at(variant, corpus, cursor[processed + 1])
next_index == corpus.pattern[((cursor[processed + 1] - 1) % Len(corpus.pattern)) + 1]
loop_step == pc = "streaming" /\ processed < Len(cursor) /\ processed' = processed + 1
missing(doc, f) == f \notin DOMAIN doc
entry_of(counts, key) == GetOr(counts, key, new_entry)
\* the keys of the mentions found in the titles alone, per document of Docs
DomTitleKeys ==
  FlatMap(LAMBDA doc :
    LET vs == validate_all(GZ, extract_locations_regex(text_or_empty(doc, "title") \o <<" ">>, COMMON_NAMES))
    IN <<{canonical_key(vs[k]) : k \in 1..Len(vs)} \ {NoKey}>>, DomDocs)
WorldTitleKeys ==
  FlatMap(LAMBDA doc :
    LET vs == world_validate_all(LOCS, extract_locations(text_or_empty(doc, "title") \o <<" ">>, LOCS))
    IN <<{world_canonical_key(vs[k]) : k \in 1..Len(vs)} \ {NoKey}>>, WorldDocs)
title_keys(v, p) == IF v = "domestic" THEN DomTitleKeys[p] ELSE WorldTitleKeys[p]
\* C12 (as stated): processing a document whose text is absent or null raises
\* nothing, leaves every count and sample list as it was, and the run goes on
\* with the next document.
C12_NoTextNoMentions ==
  [][(loop_step /\ missing(next_doc, "text")) => (pc' = "streaming" /\ geo_counts' = geo_counts)]_vars
\* C12 (amended): processing a document whose text is absent or null raises
\* nothing and the run goes on; the document contributes the mentions of its
\* title and no other: the keys found in the title are counted once more and
\* get the document's id, every other key keeps its count and sample list, and
\* with the title absent, null or empty too nothing changes.
C12_NoTextOnlyTitleMentions ==
  [][(loop_step /\ missing(next_doc, "text")) =>
       /\ pc' = "streaming"
       /\ keys_in(geo_counts') = keys_in(geo_counts) \cup title_keys(variant, next_index)
       /\ \A key \in keys_in(geo_counts') :
            IF key \in title_keys(variant, next_index)
            THEN /\ count_of(geo_counts', key) = count_of(geo_counts, key) + 1
                 /\ entry_of(geo_counts', key).count <= DOC_IDS_CAP =>
                      entry_of(geo_counts', key).doc_ids
                        = Append(entry_of(geo_counts, key).doc_ids, cursor[processed + 1])
            ELSE entry_of(geo_counts', key) = entry_of(geo_counts, key)
       /\ (text_or_empty(next_doc, "title") = <<>> => geo_counts' = geo_counts)]_vars
\* documents without text have been processed: one with a mention in its
\* title, counted, and one without title
C12_Witness ==
  /\ pc = "streaming" /\ processed >= 3
  /\ missing(doc_at(variant, corpus, cursor[processed]), "text")
  /\ missing(doc_at(variant, corpus, cursor[processed]), "title")
  /\ \E i \in 1..(processed - 1) :
       /\ missing(doc_at(variant, corpus, cursor[i]), "text")
       /\ doc_keys(variant, corpus, cursor[i]) # {}
       /\ \A key \in doc_keys(variant, corpus, cursor[i]) : count_of(geo_counts, key) >= 1

\* ------------------------------------------------------------ candidates
\* the validated candidates of the document the next iteration processes
next_validated == extracted_at(extractor, variant, corpus, cursor[processed + 1])
next_keys == keys_of(variant, next_validated)
\* C13: a candidate for which the validator returns None raises nothing and
\* changes no count and no sample list, and the candidates after it are still
\* counted: a document of rejected candidates only leaves the table as it
\* was, every candidate that has a key is counted whatever was rejected before
\* it, and the entries of all other keys stay as they were.
C13_RejectedCandidateDropped ==
  [][loop_step =>
       /\ pc' = "streaming"
       /\ (\A k \in 1..Len(next_validated) : next_validated[k] = None) => geo_counts' = geo_counts
       /\ \A k \in 1..Len(next_validated) :
            next_keys[k] # NoKey =>
              count_of(geo_counts', next_keys[k]) = count_of(geo_counts, next_keys[k]) + 1
       /\ \A key \in keys_in(geo_counts') :
            (\A k \in 1..Len(next_validated) : next_keys[k] # key) =>
              entry_of(geo_counts', key) = entry_of(geo_counts, key)]_vars
\* a document whose first candidate is rejected and whose second is valid
\* has been processed, and the second is counted
C13_Witness ==
  /\ pc = "streaming" /\ processed >= 1
  /\ LET vs == extracted_at(extractor, variant, corpus, cursor[processed])
         ks == keys_of(variant, vs)
     IN /\ Len(vs) >= 2 /\ vs[1] = None /\ ks[2] # NoKey
        /\ count_of(geo_counts, ks[2]) >= 1
        /\ cursor[processed] \in ids_of(entry_of(geo_counts, ks[2]).doc_ids)

\* the canonical key process_documents forms for a record
record_key(v, rec) ==
  IF v = "world" THEN lower(Join(rec.name, rec.country))
  ELSE IF rec.type = "state" THEN lower(rec.name) ELSE lower(Join(rec.name, rec.state))
\* C17: every candidate of a document for which the validator returns a
\* record is counted: the count of its canonical key grows by exactly one,
\* also for the state-level records of the validator's last rule and for
\* records of latitude 0.
C17_EveryValidatedCounted ==
  [][loop_step =>
       \A k \in 1..Len(next_validated) :
         next_validated[k] # None =>
           count_of(geo_counts', record_key(variant, next_validated[k]))
             = count_of(geo_counts, record_key(variant, next_validated[k])) + 1]_vars

\* ------------------------------------------------------------ size filter
\* C14: the world aggregator leaves out of the stream exactly the documents
\* whose text is longer than the threshold: with no limit given, the
\* documents processed are those whose text has at most TEXT_LIMIT
\* characters, one of exactly TEXT_LIMIT characters included.
C14_SizeFilter ==
  (variant = "world" /\ pc \in {"inserting", "done"} /\ ~truthy(limit)) =>
    ids_of(SubSeq(cursor, 1, processed))
      = {i \in 1..corpus.n : Len(text_or_empty(doc_at("world", corpus, i), "text")) <= TEXT_LIMIT}

\* ------------------------------------------------------------ sharded aggregation
\* A fourth specification: beside the sequential scan of process_documents,
\* the stream is partitioned across a pool of workers; each worker folds its
\* documents, in stream order, into a local table with the loop body of
\* process_documents, and the local tables are merged in any order.
NumWorkers == 2
Workers == 1..NumWorkers
\* the additive reducer: keys union, counts sum, sample ids concatenated and
\* cut to the cap
RECURSIVE merge_tables(_, _, _)
merge_tables(a, b, n) ==
  IF n = 0 THEN a
  ELSE LET rest == merge_tables(a, b, n - 1)
           key == b[n][1]
           old == GetOr(rest, key, new_entry)
           ids == old.doc_ids \o b[n][2].doc_ids
       IN Put(rest, key, [count |-> old.count + b[n][2].count,
                          doc_ids |-> SubSeq(ids, 1, Min(Len(ids), DOC_IDS_CAP)),
                          info |-> b[n][2].info])
\* the positions of the cursor given to worker w
part_of(assign, w) == SelectSeq([i \in 1..Len(assign) |-> i], LAMBDA i : assign[i] = w)

InitShard ==
  /\ variant \in {"domestic", "world"}
  /\ corpus \in [pattern : Patterns, n : {FewDocs}]
  /\ limit = [given |-> FALSE]
  /\ pc = "idle"
  /\ run = 0
  /\ cursor = <<>>
  /\ processed = 0
  /\ geo_counts = <<>>
  /\ geo_docs = <<>>
  /\ inserted = 0
  /\ collection = <<>>
  /\ previous = <<>>
  /\ stored = <<>>
  /\ readerView = NotRead
  /\ call = NoCall
  /\ ret = NoCall
  /\ data_dir = setup_output(variant)
  /\ extractor = NotConstructed
  /\ shards = NoShards
\* the stream is partitioned across the pool
Partition ==
  /\ pc = "streaming" /\ ~shards.partitioned
  /\ \E assign \in [1..Len(cursor) -> Workers] :
       shards' = [partitioned |-> TRUE, assign |-> assign,
                  folded |-> [w \in Workers |-> 0],
                  tables |-> [w \in Workers |-> <<>>],
                  merged |-> <<>>, total |-> <<>>]
  /\ UNCHANGED <<runVars_but_shards, call, ret>>
\* worker w folds its next document into its local table
ShardFold(w) ==
  /\ shards.partitioned
  /\ shards.folded[w] < Len(part_of(shards.assign, w))
  /\ LET id == cursor[part_of(shards.assign, w)[shards.folded[w] + 1]]
     IN shards' = [shards EXCEPT
                     !.folded[w] = @ + 1,
                     !.tables[w] = count_doc(variant, @, extracted_at(extractor, variant, corpus, id), id)]
  /\ UNCHANGED <<runVars_but_shards, call, ret>>
\* the local table of a worker that is through is merged into the total
ShardMerge(w) ==
  /\ shards.partitioned
  /\ shards.folded[w] = Len(part_of(shards.assign, w))
  /\ \A k \in 1..Len(shards.merged) : shards.merged[k] # w
  /\ shards' = [shards EXCEPT
                  !.merged = Append(@, w),
                  !.total = merge_tables(@, shards.tables[w], Len(shards.tables[w]))]
  /\ UNCHANGED <<runVars_but_shards, call, ret>>
NextShard ==
  Start \/ ProcessDoc \/ Partition \/ (\E w \in Workers : ShardFold(w)) \/ (\E w \in Workers : ShardMerge(w))
SpecShard == InitShard /\ [][NextShard]_vars

scan_done == pc = "streaming" /\ processed = Len(cursor)
merge_done == shards.partitioned /\ Len(shards.merged) = NumWorkers
\* C15: for every partition of the stream and every order of merging, the
\* merged table holds the keys of the sequential scan's table, each with the
\* same count.
C15_ShardedCountsEqualSequential ==
  (scan_done /\ merge_done) =>
    /\ keys_in(shards.total) = keys_in(geo_counts)
    /\ \A key \in keys_in(geo_counts) : count_of(shards.total, key) = count_of(geo_counts, key)
\* a key counted in documents of two workers, the second worker merged first
C15_Witness ==
  /\ scan_done /\ merge_done
  /\ shards.merged[1] = 2
  /\ \E key \in keys_in(geo_counts) :
       /\ count_of(shards.tables[1], key) >= 1 /\ count_of(shards.tables[2], key) >= 1
       /\ count_of(geo_counts, key) = count_of(shards.tables[1], key) + count_of(shards.tables[2], key)

\* ------------------------------------------------------------ world candidates
\* the text a call gives to the world extractor
scanned(c) == IF c.kind = "world_doc" THEN <<" ">> \o call_text(c) ELSE call_text(c)
world_call == call.kind \in {"world_extract", "world_doc"} /\ ret.done
\* C16: for a text in which find_country_mentions finds no country name and
\* no country code, extract_locations emits no candidate, also when the text
\* names a city of the gazetteer.
C16_NoCountryNoCandidate ==
  (world_call /\ find_country_mentions(scanned(call)) = <<>>) => ret.value = <<>>
\* "City, UK" for a city of the United Kingdom in the gazetteer: pattern 3
\* matches, no country mention is found, nothing is emitted
C16_Witness ==
  /\ call.kind = "world_extract" /\ ret.done /\ ret.value = <<>>
  /\ find_country_mentions(call_text(call)) = <<>>
  /\ wregex3_out(call_text(call), LOCS) # <<>>
  /\ Has(LOCS, lower(Join(call.city, UnitedKingdom)))

\* the lower-cased city names of the candidates of a call, in order
city_names(c, out) ==
  [i \in 1..Len(out) |-> IF c.kind = "world_doc" THEN lower(out[i].name) ELSE lower(out[i][1])]
\* how many candidates patterns (a)-(c) emit for a text
direct_count(t) ==
  Len(wregex1_out(t, LOCS)) + Len(wregex2_out(t, LOCS)) + Len(wregex3_out(t, LOCS))
\* C18: no candidate of the proximity fallback has the lower-cased city name
\* of a candidate emitted before it in the same call, by patterns (a)-(c) or
\* by the fallback, whatever country that one was paired with.
C18_FallbackNeverReemits ==
  world_call =>
    LET names == city_names(call, ret.value)
    IN \A j \in (direct_count(scanned(call)) + 1)..Len(names) :
         \A i \in 1..(j - 1) : names[i] # names[j]
\* "in Canada or Windsor, England": Windsor is paired with the United Kingdom
\* by pattern (a); Canada is mentioned next to it and has a Windsor too
C18_Witness ==
  /\ call.kind = "world_doc" /\ ret.done
  /\ call.city = Windsor /\ call.gap = CommaSp /\ call.country = title(england) /\ call.city_first
  /\ Has(LOCS, lower(Join(Windsor, Canada)))
  /\ \E k \in 1..Len(find_country_mentions(scanned(call))) :
       find_country_mentions(scanned(call))[k].name = Canada
  /\ Len(ret.value) = 1 /\ ret.value[1].country = UnitedKingdom

\* ------------------------------------------------------------ region forms
CountyNames == {CookCounty, SuffolkCounty}
\* C19: "X County, S" resolves to the county entry whether S is the state's
\* code or its name and whether the county table keys the county under the
\* code or under the name.
C19_CountyStateBothForms ==
  (call.kind = "validate" /\ ret.done) =>
    \A x \in CountyNames : \A j \in 1..Len(STATE_ABBREV) :
      \A key \in {lower(Join(x, STATE_ABBREV[j][1])), lower(Join(x, STATE_ABBREV[j][2]))} :
        (/\ Has(gazetteer(call.gaz).counties, key)
         /\ call.arg \in {Join(x, STATE_ABBREV[j][1]), Join(x, STATE_ABBREV[j][2])})
        => ret.value = Get(gazetteer(call.gaz).counties, key)

\* C20: "City, ST" and "City, State Name" validate to the same entry whenever
\* the place table holds the city under at least one of the two keys (under
\* both, with one entry); both are None only when it holds neither.
C20_CityStateBothForms ==
  (call.kind = "validate_both" /\ ret.done) =>
    LET places == gazetteer(call.gaz).locations
        k1 == lower(Join(call.city, STATE_ABBREV[call.state][1]))
        k2 == lower(Join(call.city, STATE_ABBREV[call.state][2]))
    IN /\ (Has(places, k1) /\ (Has(places, k2) => Get(places, k2) = Get(places, k1)))
            => (ret.value[1] = Get(places, k1) /\ ret.value[2] = Get(places, k1))
       /\ (Has(places, k2) /\ (Has(places, k1) => Get(places, k1) = Get(places, k2)))
            => (ret.value[1] = Get(places, k2) /\ ret.value[2] = Get(places, k2))

\* ------------------------------------------------------------ domestic candidates
in_list(s, x) == \E i \in 1..Len(s) : s[i] = x
dom_extract_done == call.kind = "dom_extract" /\ ret.done
\* C21: a two-letter region token that is not written as in the abbreviation
\* table ("Ma", "Il") after "City, " or "X County, " is not accepted as a
\* state: the text yields no "City, Region" and no "X County, State" candidate.
C21_AbbreviationCaseExact ==
  (dom_extract_done /\ call.region \in MixedForms) =>
    \A i \in 1..Len(ret.value.raw_locations) : ~Contains(ret.value.raw_locations[i], <<",">>)

\* C22: for every abbreviation A of OLD_STATE_ABBREVS and every capitalized
\* city that is not a common personal name, a text containing "City, A"
\* yields the candidate "City, <full name of A's state>".
C22_EveryOldAbbreviationEmits ==
  (dom_extract_done /\ Has(OLD_STATE_ABBREVS, call.region) /\ lower(call.place) \notin COMMON_NAMES) =>
    in_list(ret.value.raw_locations,
            Join(call.place, Get(abbrev_to_full, Get(OLD_STATE_ABBREVS, call.region))))

\* ------------------------------------------------------------ source rows
parse_done == call.kind \in {"parse_cities_csv", "parse_cities"} /\ ret.done
\* the keys a well-formed row is stored under
census_keys(r) == {lower(Join(r.CITY, r.STATE_NAME)), lower(Join(r.CITY, r.STATE_CODE))}
geoname_keys(r, code) ==
  {lower(Join(r.name, Get(code_to_name, code))), lower(Join(r.name, code))}
\* the row of a call has every column of the header, and numbers where
\* numbers are read
census_well_formed(c) ==
  c.header = CensusHeader /\ c.keep = Len(CensusHeader) /\ is_num(c.lat)
geoname_well_formed(c) ==
  c.keep >= MIN_PARTS /\ is_num(c.lat) /\ (is_num(c.pop) \/ c.pop.s = <<>>) /\ Has(code_to_name, c.code)
loaded(keys) == \A key \in keys : Has(ret.value.places, key)
\* C23: whatever is wrong with one row of a source file (a coordinate that
\* is no number, a missing column, a row shorter than the header),
\* parse_cities_csv and parse_cities raise nothing, and the well-formed rows
\* before and after it are loaded.
C23_MalformedRowsSkipped ==
  parse_done =>
    /\ ~ret.value.raised
    /\ (call.kind = "parse_cities_csv" /\ call.header = CensusHeader) =>
         /\ loaded(census_keys(DomRows[1])) /\ loaded(census_keys(DomRows[2]))
         /\ census_well_formed(call) => loaded(census_keys(DomRows[4]))
    /\ call.kind = "parse_cities" =>
         /\ loaded(geoname_keys(WorldRows[1], FR)) /\ loaded(geoname_keys(WorldRows[2], GB))
         /\ geoname_well_formed(call) => loaded(geoname_keys(WorldRows[6], call.code))

\* ------------------------------------------------------------ standalone states
state_names == {full_to_abbrev[i][1] : i \in 1..Len(full_to_abbrev)}
\* name stands at position i of t, and no longer state name that contains
\* it stands over that place
own_mention_at(t, name, i) ==
  /\ SubSeq(t, i, i + Len(name) - 1) = name
  /\ \A longer \in state_names \ {name} : \A j \in 1..i :
       ~(/\ j + Len(longer) >= i + Len(name)
         /\ j + Len(longer) - 1 <= Len(t)
         /\ SubSeq(t, j, j + Len(longer) - 1) = longer)
own_mention(t, name) == \E i \in 1..(Len(t) - Len(name) + 1) : own_mention_at(t, name, i)
\* C25: a state name is a candidate only when the text mentions it on its
\* own, not inside a longer state name ("Virginia" in "West Virginia"), and
\* only then is the document counted under the state's key.
C25_StandaloneOwnMention ==
  dom_extract_done =>
    \A name \in state_names :
      /\ in_list(ret.value.raw_locations, name) => own_mention(call_text(call), name)
      /\ (\E i \in 1..Len(ret.value.validated) : canonical_key(ret.value.validated[i]) = lower(name))
           => own_mention(call_text(call), name)

\* ------------------------------------------------------------ candidate forms
ends_in_county(s) ==
  Len(s) > Len(County) + 1 /\ SubSeq(s, Len(s) - Len(County), Len(s)) = <<" ">> \o County
\* "City, State" and "X County, State" have a comma, "X County" ends in
\* " County"; a full state name is the fourth form
candidate_form(s) == Contains(s, <<",", " ">>) \/ ends_in_county(s) \/ s \in state_names
from_ambiguous_rule(v) == v # None /\ "ambiguous" \in DOMAIN v /\ v.ambiguous
\* C26: every candidate of the domestic extractor is "City, State",
\* "X County", "X County, State" or a full state name, and no record the
\* aggregator counts was made by the bare-name rule with ambiguous = true.
C26_NoBareCityNoAmbiguous ==
  dom_extract_done =>
    /\ \A i \in 1..Len(ret.value.raw_locations) : candidate_form(ret.value.raw_locations[i])
    /\ \A i \in 1..Len(ret.value.validated) :
         has_lat(ret.value.validated[i]) => ~from_ambiguous_rule(ret.value.validated[i])

\* ------------------------------------------------------------ run order
\* Init is "idle", Streaming "streaming", Finalizing "inserting", Done "done"
forward_steps == {<<"idle", "streaming">>, <<"streaming", "inserting">>, <<"inserting", "done">>}
\* C24: a run goes from Init to Streaming to Finalizing to Done and never
\* back (Streaming follows Done only as the next run); the collection is not
\* dropped and not written while a document of the stream is unprocessed;
\* when the stream is through, every key has been counted once for each
\* streamed document that mentions it, so each document was processed exactly
\* once; and every run that streams reaches Done.
C24_RunOrder ==
  /\ [][\/ pc' = pc
        \/ <<pc, pc'>> \in forward_steps
        \/ pc = "done" /\ pc' = "streaming" /\ run' = run + 1]_vars
  /\ [][collection' # collection =>
          (pc \in {"streaming", "inserting"} /\ processed = Len(cursor) /\ processed' = processed)]_vars
  /\ [](pc = "streaming" => collection = previous)
  /\ [](pc \in {"inserting", "done"} =>
          /\ processed = Len(cursor)
          /\ \A i \in 1..processed : \A key \in doc_keys(variant, corpus, cursor[i]) :
               count_of(geo_counts, key) = Len(hits(key)))
  /\ (pc = "streaming") ~> (pc = "done")
\* a limited run over a longer stream is done, and its records are written
C24_Witness ==
  /\ pc = "done" /\ truthy(limit) /\ processed = SmallLimit /\ processed < corpus.n
  /\ collection # <<>> /\ collection = geo_docs

\* ------------------------------------------------------------ window edges
\* city stands in t as a whole capitalized token: a word boundary of the
\* text before it and after it
complete_token(t, city) ==
  \E i \in 1..(Len(t) - Len(city) + 1) :
    /\ SubSeq(t, i, i + Len(city) - 1) = city
    /\ Boundary(t, i)
    /\ Boundary(t, i + Len(city))
\* C27: every city the world extractor emits for a text is a whole
\* capitalized token of the text; a word cut by the edge of the window
\* around a country mention (or by the end of the scanned prefix) gives no
\* city.
C27_WholeTokensOnly ==
  (call.kind = "world_doc" /\ ret.done) =>
    LET triples == extract_locations(call_text(call), LOCS)
    IN \A i \in 1..Len(triples) : complete_token(call_text(call), triples[i][1])

\* ------------------------------------------------------------ bounded id lists
\* C28: for every key of the count table the list of document ids has
\* min(count, 100) entries, none of them twice, and they are the first
\* min(count, 100) documents of the stream that were counted for the key; the
\* list is never longer than 100.
C28_BoundedIdList ==
  \A key \in keys_in(geo_counts) :
    LET entry == entry_of(geo_counts, key)
        counted == hits(key)
    IN /\ entry.count = Len(counted)
       /\ Len(entry.doc_ids) = Min(entry.count, DOC_IDS_CAP)
       /\ Len(entry.doc_ids) <= DOC_IDS_CAP
       /\ Cardinality(ids_of(entry.doc_ids)) = Len(entry.doc_ids)
       /\ entry.doc_ids = SubSeq(counted, 1, Min(entry.count, DOC_IDS_CAP))
\* a key has been counted for more than 100 documents while the stream goes on
C28_Witness ==
  /\ pc = "streaming"
  /\ \E key \in keys_in(geo_counts) :
       /\ entry_of(geo_counts, key).count > DOC_IDS_CAP
       /\ Len(entry_of(geo_counts, key).doc_ids) = DOC_IDS_CAP

\* ------------------------------------------------------------ emitted triples
country_name_set == {code_to_name[i][2] : i \in 1..Len(code_to_name)}
\* C30: every triple the world extractor emits is validated to the record
\* held under its lower-cased "city, country" key, never to None; and the
\* key of the validator's second lookup is the key of the first, so the
\* second finds nothing the first did not.
C30_EmittedTriplesValidate ==
  (call.kind = "world_doc" /\ ret.done) =>
    LET triples == extract_locations(call_text(call), LOCS)
    IN /\ Len(ret.value) = Len(triples)
       /\ \A i \in 1..Len(triples) :
            /\ ret.value[i] # None
            /\ Has(LOCS, lower(Join(triples[i][1], triples[i][2])))
            /\ ret.value[i] = world_record(Get(LOCS, lower(Join(triples[i][1], triples[i][2]))))
       /\ \A n \in country_name_set :
            /\ Join(lower(call.city), lower(n)) = lower(Join(call.city, n))
            /\ ~Has(LOCS, lower(Join(call.city, n))) =>
                 world_validate_and_geocode(LOCS, call.city, n, Get(name_to_code, lower(n))) = None
\* a city found by the window scan far from its country is emitted and validated
C30_Witness ==
  /\ call.kind = "world_doc" /\ ret.done
  /\ call.gap = Filler(NearGap) /\ call.city = Lyon
  /\ ret.value # <<>>
  /\ \A i \in 1..Len(ret.value) : ret.value[i] # None
====
